---- MODULE Spec2Model ----
(***************************************************************************)
(* Model of the YOLO output decoders and the greedy non-maximum            *)
(* suppression of nvdsparsebbox_Yolo.cpp (and the copy of iou/nms in       *)
(* common.hpp).                                                            *)
(*                                                                         *)
(* Numbers.  The code computes in binary floating point (float).  A float  *)
(* is modelled as an integer count of a fixed power-of-two quantum, and    *)
(* every arithmetic result is rounded to MantBits significant bits, ties   *)
(* to even (Fl), as IEEE-754 does with 24 bits.  Box coordinates are given *)
(* in half pixels, box edges are computed in quarter pixels, areas in      *)
(* sixteenths of a square pixel.  Confidences, objectness and class       *)
(* scores are integers in thousandths; nms() and the proposal decoder      *)
(* only compare and copy them, the grid decoders multiply two of them      *)
(* (MulThousandths).  A grid tensor is a function from <<y, x, b>> to the  *)
(* channels of the slot; the units of its offsets, widths and anchors are  *)
(* stated at each decoder.                                                 *)
(***************************************************************************)
EXTENDS Integers, Sequences, FiniteSets

(* ---------------------------------------------------------------------- *)
(* Bounds of the model                                                     *)
(* ---------------------------------------------------------------------- *)

\* significant bits of the modelled floating point format (float has 24)
MantBits == 6

\* largest number of tuples in a direct-regression buffer
MaxDets == 4

\* bits of the modelled unsigned int (unsigned int has 32)
UIntBits == 16

(* ---------------------------------------------------------------------- *)
(* Program constants                                                       *)
(* ---------------------------------------------------------------------- *)

\* #define CONF_THRESH 0.4, in thousandths
CONF_THRESH == 400

\* #define NMS_THRESH 0.5, in thousandths
NMS_THRESH == 500

\* the literal 1000 of nms(): most tuples read from a buffer
MAX_OUTPUT_BBOX_COUNT == 1000

\* static const int NUM_CLASSES_YOLO = 80
NUM_CLASSES_YOLO == 80

\* const int topK = 200 of NvDsInferParseCustomYoloTLT
topK == 200

\* the literal 1.001 of NvDsInferParseCustomYoloTLT, in thousandths
MAX_SCORE == 1001

(* ---------------------------------------------------------------------- *)
(* Floating point                                                          *)
(* ---------------------------------------------------------------------- *)

Abs(x) == IF x < 0 THEN -x ELSE x

RECURSIVE Pow2(_)
Pow2(k) == IF k <= 0 THEN 1 ELSE 2 * Pow2(k - 1)

\* n / d rounded to the nearest integer, ties to the even one (n >= 0, d > 0)
RoundHalfEven(n, d) ==
    LET q == n \div d
        r == n % d
    IN  IF 2 * r < d THEN q
        ELSE IF 2 * r > d THEN q + 1
        ELSE IF q % 2 = 0 THEN q ELSE q + 1

\* the integers below MantLimit are floats
MantLimit == Pow2(MantBits)

\* the least e >= 0 with n < 2^(MantBits + e): the bits n has too many
RECURSIVE ExcessBits(_)
ExcessBits(n) == IF n < MantLimit THEN 0 ELSE 1 + ExcessBits(n \div 2)

\* the float nearest to the integer x (in any power-of-two quantum)
Fl(x) ==
    LET a == Abs(x)
        q == Pow2(ExcessBits(a))
        r == RoundHalfEven(a, q) * q
    IN  IF x < 0 THEN -r ELSE r

FAdd(x, y) == Fl(x + y)
FSub(x, y) == Fl(x - y)
FMul(x, y) == Fl(x * y)

Max(x, y) == IF x < y THEN y ELSE x
Min(x, y) == IF y < x THEN y ELSE x

\* the least k >= 0 with n * 2^k >= d * 2^(MantBits - 1)   (n > 0, d > 0)
RECURSIVE QuotShift(_, _)
QuotShift(n, d) ==
    IF 2 * n >= d * MantLimit THEN 0 ELSE 1 + QuotShift(2 * n, d)

\* m / p in lowest terms, p a power of two
RECURSIVE Reduce(_, _)
Reduce(m, p) ==
    IF p > 1 /\ m % 2 = 0 THEN Reduce(m \div 2, p \div 2) ELSE <<m, p>>

\* The float quotient n / d as a fraction <<num, den>>.  den = 0 stands for
\* the IEEE-754 results of a division by zero: <<0, 0>> is NaN, <<1, 0>> is
\* +infinity and <<-1, 0>> is -infinity.
FDiv(n, d) ==
    IF d = 0 THEN <<(IF n > 0 THEN 1 ELSE IF n < 0 THEN -1 ELSE 0), 0>>
    ELSE IF n = 0 THEN <<0, 1>>
    ELSE LET s  == IF (n < 0) = (d < 0) THEN 1 ELSE -1
             an == Abs(n)
             ad == Abs(d)
             k  == QuotShift(an, ad)
             e  == ExcessBits(an \div ad)
         IN  IF e > 0
             THEN <<s * RoundHalfEven(an, ad * Pow2(e)) * Pow2(e), 1>>
             ELSE Reduce(s * RoundHalfEven(an * Pow2(k), ad), Pow2(k))

IsNaN(v) == v[2] = 0 /\ v[1] = 0

\* GtThousandths with the comparison turned round
GtThousandthsReversed(v, t) ==
    IF v[2] = 0 THEN v[1] < 0 ELSE v[1] * 1000 < t * v[2]

\* v > t / 1000 as the float comparison decides it (false for NaN)
GtThousandths(v, t) ==
    IF v[2] = 0 THEN v[1] > 0 ELSE v[1] * 1000 > t * v[2]

\* x <= y for two float results (false when either is NaN)
FLeq(v, w) ==
    IF IsNaN(v) \/ IsNaN(w) THEN FALSE
    ELSE IF v[2] = 0 /\ w[2] = 0 THEN v[1] <= w[1]
    ELSE IF v[2] = 0 THEN v[1] < 0
    ELSE IF w[2] = 0 THEN w[1] > 0
    ELSE v[1] * w[2] <= w[1] * v[2]

(* ---------------------------------------------------------------------- *)
(* iou                                                                     *)
(* ---------------------------------------------------------------------- *)

\* iou() with a union that leaves the intersection counted twice
iouNoSubtract(lbox, rbox) ==
    LET left   == Max(FSub(2 * lbox[1], lbox[3]), FSub(2 * rbox[1], rbox[3]))
        right  == Min(FAdd(2 * lbox[1], lbox[3]), FAdd(2 * rbox[1], rbox[3]))
        top    == Max(FSub(2 * lbox[2], lbox[4]), FSub(2 * rbox[2], rbox[4]))
        bottom == Min(FAdd(2 * lbox[2], lbox[4]), FAdd(2 * rbox[2], rbox[4]))
        interBoxS == FMul(FSub(right, left), FSub(bottom, top))
        lS == 4 * FMul(lbox[3], lbox[4])
        rS == 4 * FMul(rbox[3], rbox[4])
    IN  IF top > bottom \/ left > right THEN <<0, 1>>
        ELSE FDiv(interBoxS, FAdd(lS, rS))

\* iou() with a union that takes the area of lbox twice
iouLeftArea(lbox, rbox) ==
    LET left   == Max(FSub(2 * lbox[1], lbox[3]), FSub(2 * rbox[1], rbox[3]))
        right  == Min(FAdd(2 * lbox[1], lbox[3]), FAdd(2 * rbox[1], rbox[3]))
        top    == Max(FSub(2 * lbox[2], lbox[4]), FSub(2 * rbox[2], rbox[4]))
        bottom == Min(FAdd(2 * lbox[2], lbox[4]), FAdd(2 * rbox[2], rbox[4]))
        interBoxS == FMul(FSub(right, left), FSub(bottom, top))
        lS == 4 * FMul(lbox[3], lbox[4])
    IN  IF top > bottom \/ left > right THEN <<0, 1>>
        ELSE FDiv(interBoxS, FSub(FAdd(lS, lS), interBoxS))

\* A box is <<center_x, center_y, w, h>> in half pixels.  x / 2.f is exact;
\* an edge, in quarter pixels, is the rounded sum of 2 * center and w.
iou(lbox, rbox) ==
    LET left   == Max(FSub(2 * lbox[1], lbox[3]), FSub(2 * rbox[1], rbox[3]))
        right  == Min(FAdd(2 * lbox[1], lbox[3]), FAdd(2 * rbox[1], rbox[3]))
        top    == Max(FSub(2 * lbox[2], lbox[4]), FSub(2 * rbox[2], rbox[4]))
        bottom == Min(FAdd(2 * lbox[2], lbox[4]), FAdd(2 * rbox[2], rbox[4]))
        \* areas in sixteenths of a square pixel
        interBoxS == FMul(FSub(right, left), FSub(bottom, top))
        lS == 4 * FMul(lbox[3], lbox[4])
        rS == 4 * FMul(rbox[3], rbox[4])
    IN  IF top > bottom \/ left > right
        THEN <<0, 1>>
        ELSE FDiv(interBoxS, FSub(FAdd(lS, rS), interBoxS))

(* ---------------------------------------------------------------------- *)
(* State                                                                   *)
(* ---------------------------------------------------------------------- *)

VARIABLES
    op,           \* the call made last: "init", "iou", "nms", ...
    sortTies,     \* where this build's std::sort leaves equal elements
    lbox, rbox,   \* the arguments of iou()
    iouRes,       \* the value iou() returned
    output,       \* the direct-regression buffer: [count, dets]
    conf_thresh,  \* nms(): confidence threshold, thousandths
    nms_thresh,   \* nms(): IoU threshold, thousandths
    res,          \* nms(): the vector res after the call
    outputLayersInfo,  \* a parsing function's output layers
    networkInfo,       \* [width, height] of the network input, pixels
    entryList,         \* objectList as the caller passed it
    objectList,        \* objectList when the parsing function returned
    ret,               \* what the parsing function returned
    detectionParams,   \* the caller's NvDsInferParseDetectionParams
    exit,              \* how the call ended: "return", "abort" (a failed
                       \* assert) or "crash" (a read outside any object)
    loop,              \* nms() followed statement by statement: where it
                       \* is and its local variables
    threads,           \* decode calls that run at the same time: for each
                       \* thread where it is, its arguments and its result
    locals,            \* the automatic variables of those calls
    statics            \* the function-local static tables of the process

\* the variables of the calls that are followed step by step
stepVars == <<loop, threads, locals, statics>>

vars == <<op, sortTies, lbox, rbox, iouRes, output, conf_thresh, nms_thresh,
          res, outputLayersInfo, networkInfo, entryList, objectList, ret,
          detectionParams, exit, loop, threads, locals, statics>>

(* ---------------------------------------------------------------------- *)
(* nms                                                                     *)
(* ---------------------------------------------------------------------- *)

\* struct Detection: bbox (center_x, center_y, w, h), conf, class_id
Detection(b, c, k) == [bbox |-> b, conf |-> c, class_id |-> k]

\* cmp with the comparison turned round: ascending confidence
cmpAscending(a, b) == a.conf < b.conf

cmp(a, b) == a.conf > b.conf

\* insertion of d into a sequence sorted by cmp, behind its equals
RECURSIVE InsertSorted(_, _)
InsertSorted(s, d) ==
    IF s = <<>> THEN <<d>>
    ELSE IF cmp(d, s[1]) THEN <<d>> \o s
    ELSE <<s[1]>> \o InsertSorted(Tail(s), d)

RECURSIVE InsertionSort(_)
InsertionSort(s) ==
    IF s = <<>> THEN <<>>
    ELSE InsertSorted(InsertionSort(SubSeq(s, 1, Len(s) - 1)), s[Len(s)])

Reverse(s) == [i \in 1..Len(s) |-> s[Len(s) + 1 - i]]

\* sort left out: the group stays in buffer order
sortNone(dets) == dets

\* std::sort(dets.begin(), dets.end(), cmp): descending confidence; the
\* order of equal elements is unspecified and fixed by the build: for each
\* length, sortTies says whether equals keep or reverse their source order.
\* a sort that leaves equal elements where the call before left them last
sortByCall(dets) ==
    IF op = "init" THEN InsertionSort(dets) ELSE InsertionSort(Reverse(dets))

sort(dets) ==
    IF Len(dets) >= 2 /\ sortTies[Len(dets)]
    THEN InsertionSort(Reverse(dets))
    ELSE InsertionSort(dets)

\* erase() that leaves the vector as it is
EraseNone(dets, n) == dets

\* dets.erase(dets.begin() + n), n counted from 1
Erase(dets, n) == SubSeq(dets, 1, n - 1) \o SubSeq(dets, n + 1, Len(dets))

\* EraseLoop without the --n after the erase, so the element that moved
\* into place n is never compared
RECURSIVE EraseLoopSkip(_, _, _, _)
EraseLoopSkip(dets, m, n, thresh) ==
    IF n > Len(dets) THEN dets
    ELSE IF GtThousandths(iou(dets[m].bbox, dets[n].bbox), thresh)
         THEN EraseLoopSkip(Erase(dets, n), m, n + 1, thresh)
         ELSE EraseLoopSkip(dets, m, n + 1, thresh)

\* the inner loop of nms(): for (n = m + 1; n < dets.size(); ++n)
RECURSIVE EraseLoop(_, _, _, _)
EraseLoop(dets, m, n, thresh) ==
    IF n > Len(dets) THEN dets
    ELSE IF GtThousandths(iou(dets[m].bbox, dets[n].bbox), thresh)
         THEN EraseLoop(Erase(dets, n), m, n, thresh)
         ELSE EraseLoop(dets, m, n + 1, thresh)

\* the loop over m of nms(): what one class group adds to res
RECURSIVE Suppress(_, _, _)
Suppress(dets, m, thresh) ==
    IF m > Len(dets) THEN <<>>
    ELSE <<dets[m]>> \o Suppress(EraseLoop(dets, m, m + 1, thresh), m + 1, thresh)

\* Candidates with < for <=: a tuple exactly at conf_thresh is kept
CandidatesInclusive(out, ct) ==
    LET n == Min(Max(out.count, 0), MAX_OUTPUT_BBOX_COUNT)
    IN  SelectSeq(SubSeq(out.dets, 1, n), LAMBDA d : ~(d.conf < ct))

\* Candidates with every tuple of the buffer read, whatever the count
CandidatesAll(out, ct) ==
    SelectSeq(out.dets, LAMBDA d : ~(d.conf <= ct))

\* first loop of nms(): the tuples read, those at or below conf_thresh skipped
Candidates(out, ct) ==
    LET n == Min(Max(out.count, 0), MAX_OUTPUT_BBOX_COUNT)
    IN  SelectSeq(SubSeq(out.dets, 1, n), LAMBDA d : ~(d.conf <= ct))

\* m[class_id]: the candidates of one class, in buffer order
Group(cands, k) == SelectSeq(cands, LAMBDA d : d.class_id = k)

ClassIds(cands) == {cands[i].class_id : i \in 1..Len(cands)}

\* the iteration over std::map<float, ...>: ascending class_id
RECURSIVE ForEachClass(_, _, _)
ForEachClass(cands, keys, thresh) ==
    IF keys = {} THEN <<>>
    ELSE LET k == CHOOSE x \in keys : \A y \in keys : x <= y
         IN  Suppress(sort(Group(cands, k)), 1, thresh)
             \o ForEachClass(cands, keys \ {k}, thresh)

\* void nms(res, output, conf_thresh, nms_thresh): the contents of res
\* when it was empty at the call
nms(out, ct, nt) ==
    LET cands == Candidates(out, ct)
    IN  ForEachClass(cands, ClassIds(cands), nt)

(* ---------------------------------------------------------------------- *)
(* Direct-regression decoders                                              *)
(* ---------------------------------------------------------------------- *)

\* NvDsInferParseObjectInfo; left, top, width and height are floats, kept
\* in quarter pixels
ObjectInfo(k, l, t, w, h, c) ==
    [classId |-> k, left |-> l, top |-> t, width |-> w, height |-> h,
     detectionConfidence |-> c]

\* static_cast<unsigned int>(x) of a float x >= 0 given in quarter pixels,
\* stored back into a float field: the fraction is cut off
TruncPixels(q) == 4 * (q \div 4)

\* ConvertDetection without std::max(0.0f, ...): the origin as it comes
ConvertDetectionUnclamped(r) ==
    ObjectInfo(r.class_id,
               TruncPixels(FSub(2 * r.bbox[1], r.bbox[3])),
               TruncPixels(FSub(2 * r.bbox[2], r.bbox[4])),
               TruncPixels(2 * r.bbox[3]),
               TruncPixels(2 * r.bbox[4]),
               r.conf)

\* the body of the loop over res: one object for a detection r of nms()
ConvertDetection(r) ==
    ObjectInfo(r.class_id,
               TruncPixels(Max(0, FSub(2 * r.bbox[1], r.bbox[3]))),
               TruncPixels(Max(0, FSub(2 * r.bbox[2], r.bbox[4]))),
               TruncPixels(2 * r.bbox[3]),
               TruncPixels(2 * r.bbox[4]),
               r.conf)

\* NvDsInferParseYoloV5: the objectList it leaves.  The class count dp holds
\* is only compared for a warning; networkInfo is not read.
NvDsInferParseYoloV5(layers, net, dp, list) ==
    LET r == nms(layers[1].buffer, CONF_THRESH, NMS_THRESH)
    IN  list \o [i \in 1..Len(r) |-> ConvertDetection(r[i])]

\* NvDsInferParseYoloV4: the same statements as NvDsInferParseYoloV5
NvDsInferParseYoloV4(layers, net, dp, list) ==
    LET r == nms(layers[1].buffer, CONF_THRESH, NMS_THRESH)
    IN  list \o [i \in 1..Len(r) |-> ConvertDetection(r[i])]

(* ---------------------------------------------------------------------- *)
(* Proposal-passthrough decoder                                            *)
(* ---------------------------------------------------------------------- *)

\* the tests of one entry of NvDsInferParseCustomYoloTLT: loc is
\* <<x1, y1, x2, y2>> in quarter pixels, conf in thousandths; TRUE when the
\* entry is skipped (continue)
TLTSkips(loc, conf, net) ==
    LET W == 4 * net.width
        H == 4 * net.height
    IN  \/ conf > MAX_SCORE
        \/ loc[1] < 0 \/ loc[2] < 0 \/ loc[3] < 0 \/ loc[4] < 0
        \/ loc[1] > W \/ loc[3] > W \/ loc[2] > H \/ loc[4] > W
        \/ loc[3] < loc[1] \/ loc[4] < loc[2]
        \/ FSub(loc[4], loc[2]) > H \/ FSub(loc[3], loc[1]) > W

\* The loop of NvDsInferParseCustomYoloTLT from entry i (counted from 0):
\* for (; i < keepCount && objectList.size() <= topK; ++i), an entry that
\* fails a test skipped and any other pushed.  The entries pushed are the
\* first ones that pass the tests, for as long as the list holds at most
\* topK objects when its turn comes: the k-th of them finds Len(list) + k - 1
\* objects.  (Written without recursion: the loop can run over more than
\* topK entries.)
TLTLoop(i, keepCount, boxes, scores, cls, net, list) ==
    LET rest   == [j \in 1..(keepCount - i) |-> i + j]
        passed == SelectSeq(rest,
                      LAMBDA j : ~TLTSkips(boxes[j], scores[j], net))
        pushed == SubSeq(passed, 1,
                         Min(Len(passed), Max(0, topK + 1 - Len(list))))
    IN  list \o [k \in 1..Len(pushed) |->
                    ObjectInfo(cls[pushed[k]],
                               boxes[pushed[k]][1],
                               boxes[pushed[k]][2],
                               FSub(boxes[pushed[k]][3], boxes[pushed[k]][1]),
                               FSub(boxes[pushed[k]][4], boxes[pushed[k]][2]),
                               scores[pushed[k]])]

\* NvDsInferParseCustomYoloTLT: <<return value, objectList>>; detectionParams
\* is not read
NvDsInferParseCustomYoloTLT(layers, net, dp, list) ==
    IF Len(layers) # 4 THEN <<FALSE, list>>
    ELSE <<TRUE, TLTLoop(0, layers[1].buffer[1], layers[2].buffer,
                         layers[3].buffer, layers[4].buffer, net, list)>>

(* ---------------------------------------------------------------------- *)
(* Grid-anchor decoders                                                    *)
(* ---------------------------------------------------------------------- *)

\* clamp(val, minVal, maxVal) of trt_utils.h: val brought into
\* [minVal, maxVal]
clamp(val, minVal, maxVal) == Min(maxVal, Max(minVal, val))

\* DIVUP(n, d) of trt_utils.h: n / d rounded up
DIVUP(n, d) == (n + d - 1) \div d

\* e^t in thousandths, for the integer t the width and height channels of
\* a YoloV2 tensor hold
RECURSIVE Exp(_)
Exp(t) ==
    IF t = 0 THEN 1000
    ELSE IF t > 0 THEN RoundHalfEven(Exp(t - 1) * 2718, 1000)
    ELSE RoundHalfEven(Exp(t + 1) * 1000, 2718)

\* the product of two numbers given in thousandths, in thousandths
MulThousandths(a, b) ==
    IF a * b < 0 THEN -RoundHalfEven(-(a * b), 1000)
    ELSE RoundHalfEven(a * b, 1000)

\* an unsigned int holds the numbers below UIntLimit
UIntLimit == Pow2(UIntBits)

\* (unsigned int) of an int: the classId field an int is stored into
ToUnsigned(i) == i % UIntLimit

\* convertBBox: bx, by in quarters of a grid cell, bw, bh in quarter pixels
\* (even numbers, so that bw / 2 is a whole number of them); the object
\* carries left, top, width, height only
convertBBox(bx, by, bw, bh, stride, netW, netH) ==
    LET xCenter == FMul(bx, stride)
        yCenter == FMul(by, stride)
        x0 == FSub(xCenter, bw \div 2)
        y0 == FSub(yCenter, bh \div 2)
        x1 == FAdd(x0, bw)
        y1 == FAdd(y0, bh)
        cx0 == clamp(x0, 0, 4 * netW)
        cy0 == clamp(y0, 0, 4 * netH)
        cx1 == clamp(x1, 0, 4 * netW)
        cy1 == clamp(y1, 0, 4 * netH)
    IN  [left |-> cx0,
         width |-> clamp(FSub(cx1, cx0), 0, 4 * netW),
         top |-> cy0,
         height |-> clamp(FSub(cy1, cy0), 0, 4 * netH)]

\* addBBoxProposal with the test of the sides left out
addBBoxProposalAnySize(bx, by, bw, bh, stride, netW, netH, maxIndex, maxProb, binfo) ==
    LET bbi == convertBBox(bx, by, bw, bh, stride, netW, netH)
    IN  Append(binfo, ObjectInfo(ToUnsigned(maxIndex), bbi.left, bbi.top,
                                 bbi.width, bbi.height, maxProb))

\* addBBoxProposal: binfo with the proposal added, unless a side of its
\* box is below one pixel
addBBoxProposal(bx, by, bw, bh, stride, netW, netH, maxIndex, maxProb, binfo) ==
    LET bbi == convertBBox(bx, by, bw, bh, stride, netW, netH)
    IN  IF bbi.width < 4 \/ bbi.height < 4 THEN binfo
        ELSE Append(binfo, ObjectInfo(ToUnsigned(maxIndex), bbi.left,
                                      bbi.top, bbi.width, bbi.height,
                                      maxProb))

\* detections[bbindex + numGridCells * (b * (5 + numOutputClasses) + 5 + i)]:
\* the score of class i in a slot.  A slot names one class k with its score
\* p and the score all the other classes have.
ClassScore(slot, i) == IF i = slot.k THEN slot.p ELSE slot.rest

\* The loop over the classes: <<maxProb, maxIndex>>.  It starts from
\* maxProb = 0 and maxIndex = -1 and takes class i when its score is above
\* maxProb: it ends with the first of the classes whose score is the
\* highest one, when that score is above zero.
MaxProbLoop(slot, numOutputClasses) ==
    LET above == {i \in 0..(numOutputClasses - 1) : ClassScore(slot, i) > 0}
    IN  IF above = {} THEN <<0, -1>>
        ELSE LET maxIndex ==
                     CHOOSE i \in above :
                         \A j \in above :
                             \/ ClassScore(slot, j) < ClassScore(slot, i)
                             \/ /\ ClassScore(slot, j) = ClassScore(slot, i)
                                /\ i <= j
             IN  <<ClassScore(slot, maxIndex), maxIndex>>

\* the slot the loops of a tensor decoder visit as their n-th (from 0):
\* y outermost, then x, then b
SlotAt(n, gridSizeW, numBBoxes) ==
    <<n \div (gridSizeW * numBBoxes), (n \div numBBoxes) % gridSizeW,
      n % numBBoxes>>

\* the body of the loops of decodeYoloV3Tensor for the slot <<y, x, b>>:
\* the scores and offsets of a slot are in thousandths and in quarters of a
\* cell, its width and height factors in halves
decodeYoloV3Slot(detections, y, x, b, mask, anchors, stride, numOutputClasses, netW, netH, binfo) ==
    LET slot == detections[<<y, x, b>>]
        pw == anchors[mask[b + 1] * 2 + 1]
        ph == anchors[mask[b + 1] * 2 + 2]
        bx == FAdd(4 * x, slot.tx)
        by == FAdd(4 * y, slot.ty)
        bw == FMul(2 * pw, slot.tw)
        bh == FMul(2 * ph, slot.th)
        m  == MaxProbLoop(slot, numOutputClasses)
    IN  addBBoxProposal(bx, by, bw, bh, stride, netW, netH, m[2],
                        MulThousandths(slot.objectness, m[1]), binfo)

\* The objects decodeYoloV3Tensor adds for the slots it visits as its
\* lo-th to hi-th, in the order of the visits (the slots are halved rather
\* than taken one by one, which keeps the evaluation shallow).
RECURSIVE decodeYoloV3Slots(_, _, _, _, _, _, _, _, _, _, _)
decodeYoloV3Slots(lo, hi, detections, mask, anchors, gridSizeW, stride, numBBoxes, numOutputClasses, netW, netH) ==
    IF lo > hi THEN <<>>
    ELSE IF lo = hi
    THEN LET s == SlotAt(lo, gridSizeW, numBBoxes)
         IN  decodeYoloV3Slot(detections, s[1], s[2], s[3], mask, anchors,
                              stride, numOutputClasses, netW, netH, <<>>)
    ELSE decodeYoloV3Slots(lo, (lo + hi) \div 2, detections, mask, anchors,
             gridSizeW, stride, numBBoxes, numOutputClasses, netW, netH)
         \o decodeYoloV3Slots((lo + hi) \div 2 + 1, hi, detections, mask,
             anchors, gridSizeW, stride, numBBoxes, numOutputClasses, netW,
             netH)

decodeYoloV3Tensor(detections, mask, anchors, gridSizeW, gridSizeH, stride, numBBoxes, numOutputClasses, netW, netH) ==
    decodeYoloV3Slots(0, gridSizeH * gridSizeW * numBBoxes - 1, detections,
                      mask, anchors, gridSizeW, stride, numBBoxes,
                      numOutputClasses, netW, netH)

\* the body of the loops of decodeYoloV2Tensor: the anchors are in half
\* pixels, the width and height channels hold whole numbers
decodeYoloV2Slot(detections, y, x, b, anchors, stride, numOutputClasses, netW, netH, binfo) ==
    LET slot == detections[<<y, x, b>>]
        pw == anchors[b * 2 + 1]
        ph == anchors[b * 2 + 2]
        bx == FAdd(4 * x, slot.tx)
        by == FAdd(4 * y, slot.ty)
        bw == 2 * Fl(RoundHalfEven(pw * Exp(slot.tw), 1000))
        bh == 2 * Fl(RoundHalfEven(ph * Exp(slot.th), 1000))
        m  == MaxProbLoop(slot, numOutputClasses)
    IN  addBBoxProposal(bx, by, bw, bh, stride, netW, netH, m[2],
                        MulThousandths(slot.objectness, m[1]), binfo)

\* the objects decodeYoloV2Tensor adds for the slots it visits as its
\* lo-th to hi-th, in the order of the visits
RECURSIVE decodeYoloV2Slots(_, _, _, _, _, _, _, _, _, _)
decodeYoloV2Slots(lo, hi, detections, anchors, gridSizeW, stride, numBBoxes, numOutputClasses, netW, netH) ==
    IF lo > hi THEN <<>>
    ELSE IF lo = hi
    THEN LET s == SlotAt(lo, gridSizeW, numBBoxes)
         IN  decodeYoloV2Slot(detections, s[1], s[2], s[3], anchors, stride,
                              numOutputClasses, netW, netH, <<>>)
    ELSE decodeYoloV2Slots(lo, (lo + hi) \div 2, detections, anchors,
             gridSizeW, stride, numBBoxes, numOutputClasses, netW, netH)
         \o decodeYoloV2Slots((lo + hi) \div 2 + 1, hi, detections, anchors,
             gridSizeW, stride, numBBoxes, numOutputClasses, netW, netH)

decodeYoloV2Tensor(detections, anchors, gridSizeW, gridSizeH, stride, numBBoxes, numOutputClasses, netW, netH) ==
    decodeYoloV2Slots(0, gridSizeH * gridSizeW * numBBoxes - 1, detections,
                      anchors, gridSizeW, stride, numBBoxes,
                      numOutputClasses, netW, netH)

\* const uint kNUM_BBOXES = 3 of NvDsInferParseYoloV3
kNUM_BBOXES_V3 == 3

\* const uint kNUM_BBOXES = 5 of NvDsInferParseYoloV2
kNUM_BBOXES_V2 == 5

\* InsertLayer comparing inferDims.d[0], the number of channels
RECURSIVE InsertLayerByChannels(_, _)
InsertLayerByChannels(sorted, layer) ==
    IF sorted = <<>> THEN <<layer>>
    ELSE IF layer.inferDims.d[1] < Head(sorted).inferDims.d[1]
         THEN <<layer>> \o sorted
         ELSE <<Head(sorted)>> \o InsertLayerByChannels(Tail(sorted), layer)

\* a sorted sequence of layers with one more layer put in, ascending in
\* inferDims.d[1]
RECURSIVE InsertLayer(_, _)
InsertLayer(sorted, layer) ==
    IF sorted = <<>> THEN <<layer>>
    ELSE IF layer.inferDims.d[2] < Head(sorted).inferDims.d[2]
         THEN <<layer>> \o sorted
         ELSE <<Head(sorted)>> \o InsertLayer(Tail(sorted), layer)

\* SortLayers: the layers in ascending order of inferDims.d[1] (layers of
\* equal d[1], whose order std::sort leaves open, are not among the inputs)
RECURSIVE SortLayers(_)
SortLayers(layers) ==
    IF layers = <<>> THEN <<>>
    ELSE InsertLayer(SortLayers(SubSeq(layers, 1, Len(layers) - 1)),
                     layers[Len(layers)])

\* the loop of NvDsInferParseYoloV3 over the layers from idx on: how it
\* ends and the objects decoded.  ndebug tells whether the build defines
\* NDEBUG, that is whether an assert does anything.
RECURSIVE YoloV3Loop(_, _, _, _, _, _, _)
YoloV3Loop(idx, sortedLayers, net, anchors, masks, ndebug, objects) ==
    IF ~(idx < Len(masks)) THEN [exit |-> "return", objects |-> objects]
    ELSE LET layer == sortedLayers[idx + 1]
             gridSizeH == layer.inferDims.d[2]
             gridSizeW == layer.inferDims.d[3]
             stride == DIVUP(net.width, gridSizeW)
         IN  IF ~ndebug /\ (\/ layer.inferDims.numDims # 3
                            \/ stride # DIVUP(net.height, gridSizeH))
             THEN [exit |-> "abort", objects |-> objects]
             ELSE YoloV3Loop(idx + 1, sortedLayers, net, anchors, masks,
                      ndebug,
                      objects \o decodeYoloV3Tensor(layer.buffer,
                          masks[idx + 1], anchors, gridSizeW, gridSizeH,
                          stride, kNUM_BBOXES_V3, NUM_CLASSES_YOLO,
                          net.width, net.height))

\* NvDsInferParseYoloV3 with objectList = objects done before the number
\* of layers is looked at
NvDsInferParseYoloV3ListFirst(layers, net, dp, list, anchors, masks, ndebug) ==
    LET sortedLayers == SortLayers(layers)
        r == YoloV3Loop(0, sortedLayers, net, anchors, masks, ndebug, <<>>)
    IN  IF Len(sortedLayers) # Len(masks)
        THEN [ret |-> FALSE, objectList |-> <<>>, exit |-> "return"]
        ELSE IF r.exit = "abort"
        THEN [ret |-> FALSE, objectList |-> list, exit |-> "abort"]
        ELSE [ret |-> TRUE, objectList |-> r.objects, exit |-> "return"]

\* NvDsInferParseYoloV3: what it returns, the objectList it leaves and how
\* it ends.  The class count dp holds is only compared for a warning.  After
\* a failed assert nothing is returned and objectList is as on entry.
NvDsInferParseYoloV3(layers, net, dp, list, anchors, masks, ndebug) ==
    LET sortedLayers == SortLayers(layers)
        r == YoloV3Loop(0, sortedLayers, net, anchors, masks, ndebug, <<>>)
    IN  IF Len(sortedLayers) # Len(masks)
        THEN [ret |-> FALSE, objectList |-> list, exit |-> "return"]
        ELSE IF r.exit = "abort"
        THEN [ret |-> FALSE, objectList |-> list, exit |-> "abort"]
        ELSE [ret |-> TRUE, objectList |-> r.objects, exit |-> "return"]

\* the anchors of NvDsInferParseYoloV2 (0.57273, 0.677385, ...), in
\* thousandths of a grid cell
AnchorsV2 == <<573, 677, 1874, 2063, 3338, 5474, 7883, 3528, 9771, 9168>>

\* NvDsInferParseYoloV2 decoding as many classes as the caller configured
NvDsInferParseYoloV2Configured(layers, net, dp, list, ndebug) ==
    IF layers = <<>>
    THEN [ret |-> FALSE, objectList |-> list, exit |-> "return"]
    ELSE LET layer == layers[1]
             gridSizeH == layer.inferDims.d[2]
             gridSizeW == layer.inferDims.d[3]
             stride == DIVUP(net.width, gridSizeW)
             anchors == [i \in 1..Len(AnchorsV2) |->
                            Fl(RoundHalfEven(2 * AnchorsV2[i] * stride,
                                             1000))]
         IN  IF ~ndebug /\ (\/ layer.inferDims.numDims # 3
                            \/ stride # DIVUP(net.height, gridSizeH))
             THEN [ret |-> FALSE, objectList |-> list, exit |-> "abort"]
             ELSE [ret |-> TRUE,
                   objectList |-> decodeYoloV2Tensor(layer.buffer, anchors,
                       gridSizeW, gridSizeH, stride, kNUM_BBOXES_V2,
                       dp.numClassesConfigured, net.width, net.height),
                   exit |-> "return"]

\* NvDsInferParseYoloV2, as NvDsInferParseYoloV3; anchor *= stride gives
\* the anchors in half pixels
NvDsInferParseYoloV2(layers, net, dp, list, ndebug) ==
    IF layers = <<>>
    THEN [ret |-> FALSE, objectList |-> list, exit |-> "return"]
    ELSE LET layer == layers[1]
             gridSizeH == layer.inferDims.d[2]
             gridSizeW == layer.inferDims.d[3]
             stride == DIVUP(net.width, gridSizeW)
             anchors == [i \in 1..Len(AnchorsV2) |->
                            Fl(RoundHalfEven(2 * AnchorsV2[i] * stride,
                                             1000))]
         IN  IF ~ndebug /\ (\/ layer.inferDims.numDims # 3
                            \/ stride # DIVUP(net.height, gridSizeH))
             THEN [ret |-> FALSE, objectList |-> list, exit |-> "abort"]
             ELSE [ret |-> TRUE,
                   objectList |-> decodeYoloV2Tensor(layer.buffer, anchors,
                       gridSizeW, gridSizeH, stride, kNUM_BBOXES_V2,
                       NUM_CLASSES_YOLO, net.width, net.height),
                   exit |-> "return"]

\* kANCHORS and kMASKS of NvDsInferParseCustomYoloV3
kANCHORS_V3 ==
    <<10, 13, 16, 30, 33, 23, 30, 61, 62, 45, 59, 119, 116, 90, 156, 198,
      373, 326>>
kMASKS_V3 == <<(<<6, 7, 8>>), (<<3, 4, 5>>), (<<0, 1, 2>>)>>

\* kANCHORS and kMASKS of NvDsInferParseCustomYoloV3Tiny
kANCHORS_V3Tiny == <<10, 14, 23, 27, 37, 58, 81, 82, 135, 169, 344, 319>>
kMASKS_V3Tiny == <<(<<3, 4, 5>>), (<<1, 2, 3>>)>>

NvDsInferParseCustomYoloV3(layers, net, dp, list, ndebug) ==
    NvDsInferParseYoloV3(layers, net, dp, list, kANCHORS_V3, kMASKS_V3,
                         ndebug)

NvDsInferParseCustomYoloV3Tiny(layers, net, dp, list, ndebug) ==
    NvDsInferParseYoloV3(layers, net, dp, list, kANCHORS_V3Tiny,
                         kMASKS_V3Tiny, ndebug)

NvDsInferParseCustomYoloV2(layers, net, dp, list, ndebug) ==
    NvDsInferParseYoloV2(layers, net, dp, list, ndebug)

NvDsInferParseCustomYoloV2Tiny(layers, net, dp, list, ndebug) ==
    NvDsInferParseYoloV2(layers, net, dp, list, ndebug)

(* ---------------------------------------------------------------------- *)
(* Inputs                                                                  *)
(* ---------------------------------------------------------------------- *)

\* boxes for iou(): centers and sides in half pixels; sides of 0 (no area)
\* and centers far enough out for an edge to need rounding are among them
Boxes == {2, 5, 8, 11, 40, 100} \X {2, 4} \X {0, 3, 10, 16} \X {0, 4}

\* the tuples a direct-regression buffer is filled from
Tuples ==
    { Detection(<<8, 4, 16, 4>>, 900, 0),
      Detection(<<8, 2, 16, 4>>, 800, 0),
      Detection(<<5, 2, 10, 4>>, 800, 0),
      Detection(<<11, 2, 10, 4>>, 800, 0),
      Detection(<<8, 2, 16, 4>>, 600, 0),
      Detection(<<5, 2, 10, 4>>, 800, 1) }

SeqsUpTo(S, n) == UNION {[1..k -> S] : k \in 0..n}

Distinct(d) == \A i, j \in 1..Len(d) : i # j => d[i] # d[j]

\* buffers whose count is below the number of tuples that lie behind it:
\* negative, zero, or one
CountedBuffers ==
    {[count |-> n,
      dets |-> <<Detection(<<8, 4, 16, 4>>, 900, 0),
                 Detection(<<5, 2, 10, 4>>, 800, 1)>>] : n \in {-1, 0, 1}}

\* most tuples a direct-regression network announces: above
\* MAX_OUTPUT_BBOX_COUNT
MaxCount == 1001

\* a buffer of MaxCount tuples: the first one, the one at index
\* MAX_OUTPUT_BBOX_COUNT - 1 and those behind it are above every
\* threshold, the others below
LongBuffers ==
    {[count |-> MaxCount,
      dets |-> [i \in 1..MaxCount |->
                   IF i = 1 THEN Detection(<<8, 4, 16, 4>>, 900, 0)
                   ELSE IF i = MAX_OUTPUT_BBOX_COUNT
                        THEN Detection(<<5, 2, 10, 4>>, 800, 1)
                   ELSE IF i > MAX_OUTPUT_BBOX_COUNT
                        THEN Detection(<<40, 40, 10, 4>>, 950, 2)
                   ELSE Detection(<<8, 4, 16, 4>>, 100, 0)]]}

\* buffers (output[0] is the number of tuples that follow): up to MaxDets
\* different tuples in any order, or the same tuple twice
Buffers ==
    {[count |-> Len(d), dets |-> d] :
        d \in {x \in SeqsUpTo(Tuples, MaxDets) : Distinct(x)}
               \cup {<<t, t>> : t \in Tuples}}
    \cup CountedBuffers \cup LongBuffers

ConfThreshs == {CONF_THRESH, 600}
NmsThreshs == {250, NMS_THRESH}

\* largest number of tuples or proposals given to a parsing function
MaxObjs == 2

\* tuples for the direct-regression parsing functions: a side below one
\* pixel, an origin left of and above the image, a confidence above 1, a
\* confidence at CONF_THRESH, a box outside the image with a class id
\* beyond the configured classes
YoloTuples ==
    { Detection(<<20, 20, 8, 8>>, 900, 0),
      Detection(<<20, 20, 1, 8>>, 800, 0),
      Detection(<<2, 2, 10, 10>>, 700, 1),
      Detection(<<20, 20, 8, 8>>, 1500, 0),
      Detection(<<20, 20, 8, 8>>, 400, 1),
      Detection(<<200, 200, 8, 8>>, 900, 85) }

Layer(b) == [buffer |-> b]

\* the one output layer of the direct-regression networks, or no layer
YoloLayers ==
    {<<Layer([count |-> Len(d), dets |-> d])>> :
        d \in SeqsUpTo(YoloTuples, MaxObjs)} \cup {<<>>}

\* outputLayersInfo[0] as NvDsInferParseYoloV5 and NvDsInferParseYoloV4
\* read it without looking at the size of the vector.  There is no such
\* element in an empty vector: the read faults (<<>>), or it finds a layer
\* the memory held before.
FirstLayerRead(layers) ==
    IF layers # <<>> THEN {layers}
    ELSE {<<>>} \cup {l \in YoloLayers : l # <<>> /\ l[1].buffer.count <= 1}

\* proposals <<box, score, class>> of the proposal-passthrough network
Proposals ==
    { <<(<<8, 8, 40, 40>>), 700, 1>>,
      <<(<<8, 8, 40, 40>>), 1500, 1>>,
      <<(<<8, 8, 8, 40>>), 900, 0>>,
      <<(<<8, 8, 40, 40>>), -200, 2>>,
      <<(<<8, 40, 40, 120>>), 600, 0>>,
      <<(<<-4, 8, 40, 40>>), 800, 1>> }

\* the four output layers: keep count, boxes, scores, class ids
TLTLayersOf(p) ==
    << Layer(<<Len(p)>>),
       Layer([i \in 1..Len(p) |-> p[i][1]]),
       Layer([i \in 1..Len(p) |-> p[i][2]]),
       Layer([i \in 1..Len(p) |-> p[i][3]]) >>

\* most entries a proposal-passthrough network writes: above topK
MaxKeep == 202

\* MaxKeep proposals that pass every test, or that do so but for the first
\* one; the class of a proposal is its index
LongProposals ==
    {[i \in 1..MaxKeep |->
         <<(IF i = 1 THEN b ELSE <<8, 8, 40, 40>>), 700, i - 1>>] :
        b \in {<<8, 8, 40, 40>>, <<-4, 8, 40, 40>>}}

\* four layers, or only the first three of them
TLTLayers ==
    LET full == {TLTLayersOf(p) :
                    p \in SeqsUpTo(Proposals, MaxObjs) \cup LongProposals}
    IN  full \cup {SubSeq(l, 1, 3) : l \in full}

Networks == {[width |-> 32, height |-> 24], [width |-> 24, height |-> 32]}

\* most slots of a tensor that are filled from GridSlots
MaxSlots == 1

\* one slot of a grid tensor: the offsets tx, ty, the width and height
\* channels tw, th, the objectness and the class scores
Slot(tx, ty, tw, th, objectness, k, p, rest) ==
    [tx |-> tx, ty |-> ty, tw |-> tw, th |-> th, objectness |-> objectness,
     k |-> k, p |-> p, rest |-> rest]

\* a slot with every channel at zero
QuietSlot == Slot(0, 0, 0, 0, 0, 0, 0, 0)

\* slots: objectness 0.9 and one class score 0.95; a negative objectness;
\* no class score above zero; objectness and score above 1; a center far
\* to the right of the network; a large box of class 0 with a low score
GridSlots ==
    { Slot(0, 0, 3, 3, 900, 3, 950, 0),
      Slot(2, 2, 1, 1, -500, 1, 800, 0),
      Slot(2, 2, 1, 1, 900, 0, 0, -100),
      Slot(2, 2, 1, 1, 1200, 2, 1100, 0),
      Slot(40, 2, 1, 1, 900, 3, 950, 0),
      Slot(1, 3, 4, 4, 500, 0, 600, 100) }

\* a tensor of gridSizeH x gridSizeW cells with numBBoxes slots each: the
\* slots of the last cell are filled from acts, the others are quiet
Tensor(gridSizeH, gridSizeW, numBBoxes, acts) ==
    [s \in (0..(gridSizeH - 1)) \X (0..(gridSizeW - 1))
              \X (0..(numBBoxes - 1)) |->
        IF /\ s[1] = gridSizeH - 1 /\ s[2] = gridSizeW - 1
           /\ s[3] < Len(acts)
        THEN acts[s[3] + 1] ELSE QuietSlot]

\* NvDsInferLayerInfo of a grid layer: inferDims is channels x grid height
\* x grid width
GridLayer(gridSizeH, gridSizeW, numBBoxes, acts) ==
    [inferDims |-> [numDims |-> 3,
                    d |-> <<numBBoxes * (5 + NUM_CLASSES_YOLO), gridSizeH,
                            gridSizeW>>],
     buffer |-> Tensor(gridSizeH, gridSizeW, numBBoxes, acts)]

\* The grids of the output layers of a YoloV3 or YoloV3Tiny network, in
\* the order the layers are given: three heads of a 32 x 32 network in
\* ascending order and out of order, two heads of a 32 x 32 network, two
\* heads of a 32 x 16 network, no layer.
GridShapesV3 ==
    { <<(<<1, 1>>), (<<2, 2>>), (<<3, 3>>)>>,
      <<(<<3, 3>>), (<<1, 1>>), (<<2, 2>>)>>,
      <<(<<2, 2>>), (<<1, 1>>)>>,
      <<(<<2, 4>>), (<<1, 2>>)>>,
      <<>> }

\* the grids of the output layers of a YoloV2 or YoloV2Tiny network: the
\* head of a 32 x 32 network, of a 32 x 16 network, two layers, no layer
GridShapesV2 ==
    { <<(<<1, 1>>)>>,
      <<(<<1, 2>>)>>,
      <<(<<1, 1>>), (<<2, 2>>)>>,
      <<>> }

\* the output layers of a grid network: the first layer given is filled
\* from acts, the others are quiet
GridLayersOf(shapes, numBBoxes, acts) ==
    [i \in 1..Len(shapes) |->
        GridLayer(shapes[i][1], shapes[i][2], numBBoxes,
                  IF i = 1 THEN acts ELSE <<>>)]

\* two anchors of one cell that predict the same object: the same
\* offsets, objectness 0.9 and score 0.95 for class 3
TwinActs ==
    {<<Slot(2, 2, 3, 3, 900, 3, 950, 0), Slot(2, 2, 3, 3, 900, 3, 950, 0)>>}

GridLayers(shapeSeqs, numBBoxes) ==
    {GridLayersOf(shapes, numBBoxes, acts) :
        shapes \in shapeSeqs,
        acts \in SeqsUpTo(GridSlots, MaxSlots) \cup TwinActs}

\* output layers of a YoloV3 or YoloV3Tiny network whose 1 x 1 head has
\* twice the channels the decoder reads: the layer with the smallest grid
\* is the one with the most channels
PaddedLayers ==
    {[i \in 1..Len(shapes) |->
         LET layer == GridLayersOf(shapes, kNUM_BBOXES_V3, acts)[i]
         IN  IF layer.inferDims.d[2] = 1
             THEN [layer EXCEPT !.inferDims.d[1] = 2 * @]
             ELSE layer] :
        shapes \in {<<(<<1, 1>>), (<<2, 2>>), (<<3, 3>>)>>,
                    <<(<<2, 2>>), (<<1, 1>>)>>},
        acts \in {<<>>, <<Slot(0, 0, 3, 3, 900, 3, 950, 0)>>}}

\* the output layers NvDsInferParseCustomYoloV3 and
\* NvDsInferParseCustomYoloV3Tiny are called with
V3Layers == GridLayers(GridShapesV3, kNUM_BBOXES_V3) \cup PaddedLayers

GridNetworks == {[width |-> 32, height |-> 32], [width |-> 32, height |-> 16]}

\* objectList as the caller passes it: empty, or holding an object
EntryLists == {<<>>, <<ObjectInfo(0, 0, 0, 16, 16, 500)>>}

\* the grid decoders replace the caller's list: they are given one that
\* holds an object
HeldLists == {list \in EntryLists : list # <<>>}

\* NvDsInferParseDetectionParams: the number of classes the caller
\* configured and its pre-cluster threshold for each of them, thousandths
DetectionParams(n, t0, t) ==
    [numClassesConfigured |-> n,
     perClassPreclusterThreshold |-> [k \in 0..(n - 1) |->
                                         IF k = 0 THEN t0 ELSE t]]

\* the configuration that matches NUM_CLASSES_YOLO, and one that does not
Params ==
    {DetectionParams(NUM_CLASSES_YOLO, 850, 300), DetectionParams(1, 850, 300)}

NoParams == DetectionParams(0, 0, 0)

\* a build whose std::sort keeps equal elements in their order
NoTies == [n \in 2..MaxDets |-> FALSE]

\* nms() is not being followed
NoLoop == [pc |-> "none"]

\* the threads of the process
Threads == {1, 2}

\* no thread has made a call
NoThreads == [t \in Threads |-> [pc |-> "idle"]]

\* no call holds automatic variables
NoLocals == [t \in Threads |-> <<>>]

\* no static table has been initialised
NoStatics == [f \in {"YoloV3", "YoloV3Tiny"} |-> <<>>]

NoBox == <<0, 0, 0, 0>>
NoBuffer == [count |-> 0, dets |-> <<>>]

(* ---------------------------------------------------------------------- *)
(* Calls                                                                   *)
(* ---------------------------------------------------------------------- *)

Init ==
    /\ op = "init"
    /\ sortTies \in [2..MaxDets -> BOOLEAN]
    /\ lbox = NoBox
    /\ rbox = NoBox
    /\ iouRes = <<0, 1>>
    /\ output = NoBuffer
    /\ conf_thresh = CONF_THRESH
    /\ nms_thresh = NMS_THRESH
    /\ res = <<>>
    /\ outputLayersInfo = <<>>
    /\ networkInfo = [width |-> 0, height |-> 0]
    /\ entryList = <<>>
    /\ objectList = <<>>
    /\ ret = TRUE
    /\ detectionParams = NoParams
    /\ exit = "return"
    /\ loop = NoLoop
    /\ threads = NoThreads
    /\ locals = NoLocals
    /\ statics = NoStatics

\* Calls share no state: each one starts from the state before any call.

\* a call of iou(l, r)
CallIou ==
    /\ op = "init"
    /\ \E l \in Boxes, r \in Boxes :
        /\ op' = "iou"
        /\ lbox' = l
        /\ rbox' = r
        /\ iouRes' = iou(l, r)
        /\ UNCHANGED <<stepVars, sortTies, output, conf_thresh, nms_thresh, res,
                       outputLayersInfo, networkInfo, entryList, objectList,
                       ret, detectionParams, exit>>

\* a call of nms(res, output, conf_thresh, nms_thresh) with res empty
CallNms ==
    /\ op = "init"
    /\ \E out \in Buffers, ct \in ConfThreshs, nt \in NmsThreshs :
        /\ op' = "nms"
        /\ output' = out
        /\ conf_thresh' = ct
        /\ nms_thresh' = nt
        /\ res' = nms(out, ct, nt)
        /\ UNCHANGED <<stepVars, sortTies, lbox, rbox, iouRes, outputLayersInfo,
                       networkInfo, entryList, objectList, ret,
                       detectionParams, exit>>

\* a call of NvDsInferParseCustomYoloV5, which only forwards.  When the
\* call ends in a crash nothing is returned (ret is FALSE then) and
\* objectList is as on entry.
CallYoloV5 ==
    /\ op = "init"
    /\ \E layers \in YoloLayers, net \in Networks, dp \in Params,
          list \in EntryLists :
        \E read \in FirstLayerRead(layers) :
            /\ op' = "YoloV5"
            /\ outputLayersInfo' = layers
            /\ networkInfo' = net
            /\ detectionParams' = dp
            /\ entryList' = list
            /\ exit' = IF read = <<>> THEN "crash" ELSE "return"
            /\ ret' = (read # <<>>)
            /\ objectList' = IF read = <<>> THEN list
                             ELSE NvDsInferParseYoloV5(read, net, dp, list)
            /\ UNCHANGED <<stepVars, sortTies, lbox, rbox, iouRes, output,
                           conf_thresh, nms_thresh, res>>

\* a call of NvDsInferParseCustomYoloV4, which only forwards
CallYoloV4 ==
    /\ op = "init"
    /\ \E layers \in YoloLayers, net \in Networks, dp \in Params,
          list \in EntryLists :
        \E read \in FirstLayerRead(layers) :
            /\ op' = "YoloV4"
            /\ outputLayersInfo' = layers
            /\ networkInfo' = net
            /\ detectionParams' = dp
            /\ entryList' = list
            /\ exit' = IF read = <<>> THEN "crash" ELSE "return"
            /\ ret' = (read # <<>>)
            /\ objectList' = IF read = <<>> THEN list
                             ELSE NvDsInferParseYoloV4(read, net, dp, list)
            /\ UNCHANGED <<stepVars, sortTies, lbox, rbox, iouRes, output,
                           conf_thresh, nms_thresh, res>>

\* A call of NvDsInferParseCustomYoloTLT.  It sorts nothing: its calls are
\* followed in the build of NoTies only.
CallYoloTLT ==
    /\ op = "init"
    /\ sortTies = NoTies
    /\ \E layers \in TLTLayers, net \in Networks, dp \in Params,
          list \in EntryLists :
        /\ op' = "YoloTLT"
        /\ outputLayersInfo' = layers
        /\ networkInfo' = net
        /\ detectionParams' = dp
        /\ entryList' = list
        /\ ret' = NvDsInferParseCustomYoloTLT(layers, net, dp, list)[1]
        /\ objectList' = NvDsInferParseCustomYoloTLT(layers, net, dp, list)[2]
        /\ exit' = "return"
        /\ UNCHANGED <<stepVars, sortTies, lbox, rbox, iouRes, output, conf_thresh,
                       nms_thresh, res>>

\* A call of NvDsInferParseCustomYoloV3.  The grid decoders do not sort
\* detections: their calls are followed in the build of NoTies only.
CallYoloV3 ==
    /\ op = "init"
    /\ sortTies = NoTies
    /\ \E layers \in V3Layers,
          net \in GridNetworks, dp \in Params, list \in HeldLists,
          ndebug \in BOOLEAN :
        LET r == NvDsInferParseCustomYoloV3(layers, net, dp, list, ndebug)
        IN  /\ op' = "YoloV3"
            /\ outputLayersInfo' = layers
            /\ networkInfo' = net
            /\ detectionParams' = dp
            /\ entryList' = list
            /\ ret' = r.ret
            /\ objectList' = r.objectList
            /\ exit' = r.exit
            /\ UNCHANGED <<stepVars, sortTies, lbox, rbox, iouRes, output,
                           conf_thresh, nms_thresh, res>>

\* a call of NvDsInferParseCustomYoloV3Tiny
CallYoloV3Tiny ==
    /\ op = "init"
    /\ sortTies = NoTies
    /\ \E layers \in V3Layers,
          net \in GridNetworks, dp \in Params, list \in HeldLists,
          ndebug \in BOOLEAN :
        LET r == NvDsInferParseCustomYoloV3Tiny(layers, net, dp, list,
                                                ndebug)
        IN  /\ op' = "YoloV3Tiny"
            /\ outputLayersInfo' = layers
            /\ networkInfo' = net
            /\ detectionParams' = dp
            /\ entryList' = list
            /\ ret' = r.ret
            /\ objectList' = r.objectList
            /\ exit' = r.exit
            /\ UNCHANGED <<stepVars, sortTies, lbox, rbox, iouRes, output,
                           conf_thresh, nms_thresh, res>>

\* a call of NvDsInferParseCustomYoloV2
CallYoloV2 ==
    /\ op = "init"
    /\ sortTies = NoTies
    /\ \E layers \in GridLayers(GridShapesV2, kNUM_BBOXES_V2),
          net \in GridNetworks, dp \in Params, list \in HeldLists,
          ndebug \in BOOLEAN :
        LET r == NvDsInferParseCustomYoloV2(layers, net, dp, list, ndebug)
        IN  /\ op' = "YoloV2"
            /\ outputLayersInfo' = layers
            /\ networkInfo' = net
            /\ detectionParams' = dp
            /\ entryList' = list
            /\ ret' = r.ret
            /\ objectList' = r.objectList
            /\ exit' = r.exit
            /\ UNCHANGED <<stepVars, sortTies, lbox, rbox, iouRes, output,
                           conf_thresh, nms_thresh, res>>

\* a call of NvDsInferParseCustomYoloV2Tiny
CallYoloV2Tiny ==
    /\ op = "init"
    /\ sortTies = NoTies
    /\ \E layers \in GridLayers(GridShapesV2, kNUM_BBOXES_V2),
          net \in GridNetworks, dp \in Params, list \in HeldLists,
          ndebug \in BOOLEAN :
        LET r == NvDsInferParseCustomYoloV2Tiny(layers, net, dp, list,
                                                ndebug)
        IN  /\ op' = "YoloV2Tiny"
            /\ outputLayersInfo' = layers
            /\ networkInfo' = net
            /\ detectionParams' = dp
            /\ entryList' = list
            /\ ret' = r.ret
            /\ objectList' = r.objectList
            /\ exit' = r.exit
            /\ UNCHANGED <<stepVars, sortTies, lbox, rbox, iouRes, output,
                           conf_thresh, nms_thresh, res>>

\* iou() alone; std::sort plays no part
InitIou == Init /\ sortTies = NoTies

NextIou == CallIou

SpecIou == InitIou /\ [][NextIou]_vars

\* the multi-layer grid decoders only
NextGridV3 ==
    \/ CallYoloV3
    \/ CallYoloV3Tiny

SpecGridV3 == InitIou /\ [][NextGridV3]_vars

Next ==
    \/ CallNms
    \/ CallYoloV5
    \/ CallYoloV4
    \/ CallYoloTLT
    \/ CallYoloV3
    \/ CallYoloV3Tiny
    \/ CallYoloV2
    \/ CallYoloV2Tiny

Spec == Init /\ [][Next]_vars

\* the direct-regression decoders and their suppression only
NextDirect ==
    \/ CallNms
    \/ CallYoloV5
    \/ CallYoloV4

SpecDirect == Init /\ [][NextDirect]_vars

(* ---------------------------------------------------------------------- *)
(* nms(), statement by statement                                           *)
(* ---------------------------------------------------------------------- *)

\* largest number of tuples in a buffer nms() is followed on
MaxLoopDets == 3

\* the buffers nms() is followed on: they hold the tuples they announce
LoopBuffers ==
    {b \in Buffers : b.count <= Len(b.dets) /\ Len(b.dets) <= MaxLoopDets}

\* the builds nms() is followed in: equal elements kept in their order by
\* std::sort, or reversed
LoopBuilds == {NoTies, [n \in 2..MaxDets |-> TRUE]}

InitLoop == Init /\ sortTies \in LoopBuilds

\* iou() of every two boxes of a buffer
Ious(out) ==
    LET boxes == {out.dets[i].bbox : i \in 1..Len(out.dets)}
    IN  [p \in boxes \X boxes |-> iou(p[1], p[2])]

\* nms() is entered with res empty: the map m is empty and i is 0; cands
\* holds the vectors of m, the tuples of one class in the order they were
\* pushed, and ious what iou() returns for the boxes of the buffer
LoopEnter ==
    /\ op = "init"
    /\ \E out \in LoopBuffers, nt \in NmsThreshs :
        /\ op' = "nmsSteps"
        /\ output' = out
        /\ conf_thresh' = CONF_THRESH
        /\ nms_thresh' = nt
        /\ res' = <<>>
        /\ loop' = [pc |-> "read", i |-> 0, cands |-> <<>>, keys |-> {},
                    dets |-> <<>>, m |-> 0, n |-> 0, ious |-> Ious(out)]
        /\ UNCHANGED <<sortTies, lbox, rbox, iouRes, outputLayersInfo,
                       networkInfo, entryList, objectList, ret,
                       detectionParams, exit, threads, locals, statics>>

\* one turn of for (int i = 0; i < output[0] && i < 1000; i++): tuple i is
\* skipped or pushed onto the vector of its class; after the last turn the
\* iteration over m begins
LoopRead ==
    /\ loop.pc = "read"
    /\ IF loop.i < output.count /\ loop.i < MAX_OUTPUT_BBOX_COUNT
       THEN LET det == output.dets[loop.i + 1]
            IN  loop' = [loop EXCEPT
                            !.i = loop.i + 1,
                            !.cands = IF det.conf <= conf_thresh
                                      THEN loop.cands
                                      ELSE Append(loop.cands, det)]
       ELSE loop' = [loop EXCEPT !.pc = "group",
                                 !.keys = ClassIds(loop.cands)]
    /\ UNCHANGED <<op, sortTies, lbox, rbox, iouRes, output, conf_thresh,
                   nms_thresh, res, outputLayersInfo, networkInfo, entryList,
                   objectList, ret, detectionParams, exit, threads, locals,
                   statics>>

\* one turn of for (auto it = m.begin(); it != m.end(); it++): the vector
\* of the least class not yet visited is sorted; after the last class
\* nms() returns
LoopGroup ==
    /\ loop.pc = "group"
    /\ IF loop.keys = {}
       THEN loop' = [loop EXCEPT !.pc = "done"]
       ELSE LET k == CHOOSE x \in loop.keys : \A y \in loop.keys : x <= y
            IN  loop' = [loop EXCEPT !.pc = "outer",
                                     !.keys = loop.keys \ {k},
                                     !.dets = sort(Group(loop.cands, k)),
                                     !.m = 0]
    /\ UNCHANGED <<op, sortTies, lbox, rbox, iouRes, output, conf_thresh,
                   nms_thresh, res, outputLayersInfo, networkInfo, entryList,
                   objectList, ret, detectionParams, exit, threads, locals,
                   statics>>

\* one turn of for (size_t m = 0; m < dets.size(); ++m) up to the inner
\* loop: item = dets[m] is pushed onto res and n = m + 1
LoopOuter ==
    /\ loop.pc = "outer"
    /\ IF loop.m < Len(loop.dets)
       THEN /\ res' = Append(res, loop.dets[loop.m + 1])
            /\ loop' = [loop EXCEPT !.pc = "inner", !.n = loop.m + 1]
       ELSE /\ res' = res
            /\ loop' = [loop EXCEPT !.pc = "group"]
    /\ UNCHANGED <<op, sortTies, lbox, rbox, iouRes, output, conf_thresh,
                   nms_thresh, outputLayersInfo, networkInfo, entryList,
                   objectList, ret, detectionParams, exit, threads, locals,
                   statics>>

\* one turn of for (size_t n = m + 1; n < dets.size(); ++n): dets[n] is
\* erased when it overlaps item, and --n, ++n leave n where it was;
\* otherwise ++n.  After the last turn ++m.
LoopInner ==
    /\ loop.pc = "inner"
    /\ IF loop.n < Len(loop.dets)
       THEN IF GtThousandths(loop.ious[<<loop.dets[loop.m + 1].bbox,
                                         loop.dets[loop.n + 1].bbox>>],
                             nms_thresh)
            THEN loop' = [loop EXCEPT !.dets = Erase(loop.dets, loop.n + 1)]
            ELSE loop' = [loop EXCEPT !.n = loop.n + 1]
       ELSE loop' = [loop EXCEPT !.pc = "outer", !.m = loop.m + 1]
    /\ UNCHANGED <<op, sortTies, lbox, rbox, iouRes, output, conf_thresh,
                   nms_thresh, res, outputLayersInfo, networkInfo, entryList,
                   objectList, ret, detectionParams, exit, threads, locals,
                   statics>>

NextLoop ==
    \/ LoopEnter
    \/ LoopRead
    \/ LoopGroup
    \/ LoopOuter
    \/ LoopInner

\* the statements of nms() once it is entered
LoopStep ==
    \/ LoopRead
    \/ LoopGroup
    \/ LoopOuter
    \/ LoopInner

\* nms() runs on one thread and nothing holds it up: once entered it takes
\* its next step when it has one
SpecLoop == InitLoop /\ [][NextLoop]_vars /\ WF_vars(LoopStep)

(* ---------------------------------------------------------------------- *)
(* The same call made twice                                                *)
(* ---------------------------------------------------------------------- *)

\* nms() called once more on the buffer and with the thresholds of the
\* call before, res empty as before
AgainNms ==
    /\ op = "nms"
    /\ op' = "nmsAgain"
    /\ res' = nms(output, conf_thresh, nms_thresh)
    /\ UNCHANGED <<stepVars, sortTies, lbox, rbox, iouRes, output,
                   conf_thresh, nms_thresh, outputLayersInfo, networkInfo,
                   entryList, objectList, ret, detectionParams, exit>>

\* NvDsInferParseCustomYoloV5 called once more after it returned, with the
\* layers, network and parameters of the call before and objectList as it
\* was given then
AgainYoloV5 ==
    /\ op = "YoloV5"
    /\ exit = "return"
    /\ \E read \in FirstLayerRead(outputLayersInfo) :
        /\ op' = "YoloV5Again"
        /\ exit' = IF read = <<>> THEN "crash" ELSE "return"
        /\ ret' = (read # <<>>)
        /\ objectList' = IF read = <<>> THEN entryList
                         ELSE NvDsInferParseYoloV5(read, networkInfo,
                                                   detectionParams, entryList)
        /\ UNCHANGED <<stepVars, sortTies, lbox, rbox, iouRes, output,
                       conf_thresh, nms_thresh, res, outputLayersInfo,
                       networkInfo, entryList, detectionParams>>

\* NvDsInferParseCustomYoloV4 called once more, likewise
AgainYoloV4 ==
    /\ op = "YoloV4"
    /\ exit = "return"
    /\ \E read \in FirstLayerRead(outputLayersInfo) :
        /\ op' = "YoloV4Again"
        /\ exit' = IF read = <<>> THEN "crash" ELSE "return"
        /\ ret' = (read # <<>>)
        /\ objectList' = IF read = <<>> THEN entryList
                         ELSE NvDsInferParseYoloV4(read, networkInfo,
                                                   detectionParams, entryList)
        /\ UNCHANGED <<stepVars, sortTies, lbox, rbox, iouRes, output,
                       conf_thresh, nms_thresh, res, outputLayersInfo,
                       networkInfo, entryList, detectionParams>>

NextRepeat ==
    \/ CallNms
    \/ CallYoloV5
    \/ CallYoloV4
    \/ AgainNms
    \/ AgainYoloV5
    \/ AgainYoloV4

SpecRepeat == Init /\ [][NextRepeat]_vars

(* ---------------------------------------------------------------------- *)
(* NvDsInferParseCustomYoloV3 and NvDsInferParseCustomYoloV3Tiny on two    *)
(* threads, statement by statement                                         *)
(* ---------------------------------------------------------------------- *)

\* the calls a thread makes: the function, its own layers (one slot of the
\* first layer filled, in one of two ways, or none), network and entry list
ThreadCalls ==
    {[f |-> f, net |-> net, list |-> list,
      layers |-> GridLayersOf(shapes, kNUM_BBOXES_V3, acts)] :
        f \in {"YoloV3", "YoloV3Tiny"},
        net \in {[width |-> 32, height |-> 32]},
        list \in HeldLists,
        shapes \in {<<(<<3, 3>>), (<<1, 1>>), (<<2, 2>>)>>,
                    <<(<<2, 2>>), (<<1, 1>>)>>},
        acts \in {<<>>, <<Slot(0, 0, 3, 3, 900, 3, 950, 0)>>,
                  <<Slot(1, 3, 4, 4, 500, 0, 600, 100)>>}}

\* static const kANCHORS and kMASKS of the function f
StaticTables(f) ==
    IF f = "YoloV3"
    THEN [kANCHORS |-> kANCHORS_V3, kMASKS |-> kMASKS_V3]
    ELSE [kANCHORS |-> kANCHORS_V3Tiny, kMASKS |-> kMASKS_V3Tiny]

\* std::vector<NvDsInferParseObjectInfo> objects is an automatic variable:
\* the call of thread t has its own
LocalShared(t) == 1

LocalOf(t) == t

InitThreads == Init /\ sortTies = NoTies

\* thread t calls NvDsInferParseCustomYoloV3 or NvDsInferParseCustomYoloV3Tiny
ThreadCall(t) ==
    /\ op \in {"init", "threads"}
    /\ threads[t].pc = "idle"
    /\ \E call \in ThreadCalls :
        /\ op' = "threads"
        /\ threads' = [threads EXCEPT ![t] =
                          [pc |-> "statics", call |-> call,
                           sortedLayers |-> <<>>, idx |-> 0,
                           objectList |-> call.list, ret |-> FALSE]]
        /\ UNCHANGED <<loop, locals, statics, sortTies, lbox, rbox, iouRes,
                       output, conf_thresh, nms_thresh, res, outputLayersInfo,
                       networkInfo, entryList, objectList, ret,
                       detectionParams, exit>>

\* static const kANCHORS = {...}, kMASKS = {...}: initialised by the first
\* call that gets here, under the guard the language puts around the
\* initialisation of a function-local static; left alone by every later one
ThreadStatics(t) ==
    /\ threads[t].pc = "statics"
    /\ LET f == threads[t].call.f
       IN  statics' = IF statics[f] = <<>>
                      THEN [statics EXCEPT ![f] = StaticTables(f)]
                      ELSE statics
    /\ threads' = [threads EXCEPT ![t].pc = "sort"]
    /\ UNCHANGED <<op, loop, locals, sortTies, lbox, rbox, iouRes, output,
                   conf_thresh, nms_thresh, res, outputLayersInfo,
                   networkInfo, entryList, objectList, ret, detectionParams,
                   exit>>

\* NvDsInferParseYoloV3 up to its loop: SortLayers, the comparison of the
\* number of layers with the number of masks, and the empty vector objects
ThreadSort(t) ==
    /\ threads[t].pc = "sort"
    /\ LET call == threads[t].call
           sortedLayers == SortLayers(call.layers)
       IN  IF Len(sortedLayers) # Len(statics[call.f].kMASKS)
           THEN /\ threads' = [threads EXCEPT ![t].pc = "done",
                                              ![t].ret = FALSE]
                /\ locals' = locals
           ELSE /\ threads' = [threads EXCEPT
                                  ![t].pc = "layer",
                                  ![t].sortedLayers = sortedLayers,
                                  ![t].idx = 0]
                /\ locals' = [locals EXCEPT ![LocalOf(t)] = <<>>]
    /\ UNCHANGED <<op, loop, statics, sortTies, lbox, rbox, iouRes, output,
                   conf_thresh, nms_thresh, res, outputLayersInfo,
                   networkInfo, entryList, objectList, ret, detectionParams,
                   exit>>

\* one turn of for (uint idx = 0; idx < masks.size(); ++idx): the objects
\* of layer idx are appended to objects (the asserts hold for the layers
\* of ThreadCalls); after the last turn objectList = objects; return true
ThreadLayer(t) ==
    /\ threads[t].pc = "layer"
    /\ LET call == threads[t].call
           tables == statics[call.f]
           idx == threads[t].idx
       IN  IF idx < Len(tables.kMASKS)
           THEN LET layer == threads[t].sortedLayers[idx + 1]
                    gridSizeH == layer.inferDims.d[2]
                    gridSizeW == layer.inferDims.d[3]
                    stride == DIVUP(call.net.width, gridSizeW)
                IN  /\ locals' =
                           [locals EXCEPT ![LocalOf(t)] =
                               @ \o decodeYoloV3Tensor(layer.buffer,
                                        tables.kMASKS[idx + 1],
                                        tables.kANCHORS, gridSizeW,
                                        gridSizeH, stride, kNUM_BBOXES_V3,
                                        NUM_CLASSES_YOLO, call.net.width,
                                        call.net.height)]
                    /\ threads' = [threads EXCEPT ![t].idx = idx + 1]
           ELSE /\ locals' = locals
                /\ threads' = [threads EXCEPT
                                  ![t].pc = "done",
                                  ![t].objectList = locals[LocalOf(t)],
                                  ![t].ret = TRUE]
    /\ UNCHANGED <<op, loop, statics, sortTies, lbox, rbox, iouRes, output,
                   conf_thresh, nms_thresh, res, outputLayersInfo,
                   networkInfo, entryList, objectList, ret, detectionParams,
                   exit>>

NextThreads ==
    \E t \in Threads :
        \/ ThreadCall(t)
        \/ ThreadStatics(t)
        \/ ThreadSort(t)
        \/ ThreadLayer(t)

SpecThreads == InitThreads /\ [][NextThreads]_vars

(* ---------------------------------------------------------------------- *)
(* Properties of nms                                                       *)
(* ---------------------------------------------------------------------- *)

Range(s) == {s[i] : i \in 1..Len(s)}

\* how often x occurs in s
Occurrences(s, x) == Cardinality({i \in 1..Len(s) : s[i] = x})

Overlap(a, b, thresh) == GtThousandths(iou(a.bbox, b.bbox), thresh)

\* the tuples nms() reads and keeps for grouping
Cands == Candidates(output, conf_thresh)

\* C1: after nms() no two emitted detections of the same class have an IoU,
\* as iou() computes it, above nms_thresh.
C1_NoOverlapEmitted ==
    op = "nms" =>
        \A i, j \in 1..Len(res) :
            (i # j /\ res[i].class_id = res[j].class_id)
                => ~Overlap(res[i], res[j], nms_thresh)

\* a call that suppressed a candidate and still emitted two of one class
C1_Witness ==
    /\ op = "nms"
    /\ Len(res) < Len(Cands)
    /\ \E i, j \in 1..Len(res) : i # j /\ res[i].class_id = res[j].class_id

\* C2: a candidate above conf_thresh that is missing from the result
\* overlaps (IoU above nms_thresh) an emitted detection of its class whose
\* confidence is at least its own; and some emitted detection of each
\* class carries the highest confidence of that class.
C2_RemovedOnlyByEmitted ==
    op = "nms" =>
        /\ \A d \in Range(Cands) :
               d \notin Range(res) =>
                   \E e \in Range(res) :
                       /\ e.class_id = d.class_id
                       /\ e.conf >= d.conf
                       /\ Overlap(e, d, nms_thresh)
        /\ \A d \in Range(Cands) :
               \E e \in Range(res) :
                   /\ e.class_id = d.class_id
                   /\ e.conf >= d.conf

\* a call that removed one candidate and kept two of its class that do not
\* overlap above the threshold
C2_Witness ==
    /\ op = "nms"
    /\ \E d \in Range(Cands) : d \notin Range(res)
    /\ \E i, j \in 1..Len(res) :
           /\ i # j
           /\ res[i].class_id = res[j].class_id
           /\ iou(res[i].bbox, res[j].bbox) # <<0, 1>>

\* the objects a parsing function added to the caller's list
Emitted == SubSeq(objectList, Len(entryList) + 1, Len(objectList))

\* C3: every detection nms() emits has a confidence strictly above
\* conf_thresh, and every object NvDsInferParseCustomYoloV5 or
\* NvDsInferParseCustomYoloV4 adds has a confidence strictly above
\* CONF_THRESH.
C3_AboveConfThresh ==
    /\ op = "nms" => \A e \in Range(res) : e.conf > conf_thresh
    /\ op \in {"YoloV5", "YoloV4"} =>
           \A o \in Range(Emitted) : o.detectionConfidence > CONF_THRESH

\* a call whose buffer holds a tuple exactly at conf_thresh, and emits
C3_Witness ==
    /\ op = "nms"
    /\ \E d \in Range(output.dets) : d.conf = conf_thresh
    /\ res # <<>>
    /\ Len(res) < Len(output.dets)

\* C4: nms() run on its own result, with the same thresholds, returns the
\* same detections, each as often as before.
C4_Idempotent ==
    op = "nms" =>
        LET again == nms([count |-> Len(res), dets |-> res],
                         conf_thresh, nms_thresh)
        IN  /\ Len(again) = Len(res)
            /\ \A x \in Range(res) \cup Range(again) :
                   Occurrences(again, x) = Occurrences(res, x)

\* a call that suppressed a candidate and emitted at least two detections
C4_Witness ==
    /\ op = "nms"
    /\ Len(res) >= 2
    /\ Len(res) < Len(Cands)

\* within every class the candidates have different confidences
DistinctConf(cands) ==
    \A i, j \in 1..Len(cands) :
        (i # j /\ cands[i].class_id = cands[j].class_id)
            => cands[i].conf # cands[j].conf

\* C5, as stated: raising conf_thresh never increases the number of
\* detections nms() emits.
C5_ConfMonotone ==
    op = "nms" =>
        \A c2 \in ConfThreshs :
            c2 >= conf_thresh =>
                Len(nms(output, c2, nms_thresh)) <= Len(res)

\* C5, amended: it holds when, within each class, no two candidates above
\* the lower threshold have the same confidence.
C5_ConfMonotoneDistinct ==
    (op = "nms" /\ DistinctConf(Cands)) =>
        \A c2 \in ConfThreshs :
            c2 >= conf_thresh =>
                Len(nms(output, c2, nms_thresh)) <= Len(res)

\* different confidences, two candidates of one class, and a higher
\* threshold that emits fewer detections, though not none
C5_Witness ==
    /\ op = "nms"
    /\ DistinctConf(Cands)
    /\ \E k \in ClassIds(Cands) : Len(Group(Cands, k)) >= 2
    /\ \E c2 \in ConfThreshs :
           /\ c2 > conf_thresh
           /\ nms(output, c2, nms_thresh) # <<>>
           /\ Len(nms(output, c2, nms_thresh)) < Len(res)

\* no class has more than n candidates
GroupsAtMost(cands, n) ==
    \A k \in ClassIds(cands) : Len(Group(cands, k)) <= n

\* C6, as stated: raising nms_thresh never decreases the number of
\* detections nms() emits.
C6_IouMonotone ==
    op = "nms" =>
        \A t2 \in NmsThreshs :
            t2 >= nms_thresh =>
                Len(nms(output, conf_thresh, t2)) >= Len(res)

\* C6, amended: it holds when no class has more than three candidates above
\* conf_thresh.
C6_IouMonotoneSmallGroups ==
    (op = "nms" /\ GroupsAtMost(Cands, 3)) =>
        \A t2 \in NmsThreshs :
            t2 >= nms_thresh =>
                Len(nms(output, conf_thresh, t2)) >= Len(res)

\* a class of three candidates, one suppressed at the lower threshold, and
\* a higher threshold that emits more detections
C6_Witness ==
    /\ op = "nms"
    /\ GroupsAtMost(Cands, 3)
    /\ \E k \in ClassIds(Cands) : Len(Group(Cands, k)) = 3
    /\ Len(res) < Len(Cands)
    /\ \E t2 \in NmsThreshs :
           t2 > nms_thresh /\ Len(nms(output, conf_thresh, t2)) > Len(res)

(* ---------------------------------------------------------------------- *)
(* Properties of iou                                                       *)
(* ---------------------------------------------------------------------- *)

PositiveArea(b) == b[3] > 0 /\ b[4] > 0

\* v == w as C++ compares two floats: false when either is NaN
FEq(v, w) == ~IsNaN(v) /\ ~IsNaN(w) /\ v = w

InUnitInterval(v) == FLeq(<<0, 1>>, v) /\ FLeq(v, <<1, 1>>)

\* no operation of iou(l, r) before the division had to round
ExactOps(l, r) ==
    LET l0 == 2 * l[1] - l[3]   l1 == 2 * l[1] + l[3]
        l2 == 2 * l[2] - l[4]   l3 == 2 * l[2] + l[4]
        r0 == 2 * r[1] - r[3]   r1 == 2 * r[1] + r[3]
        r2 == 2 * r[2] - r[4]   r3 == 2 * r[2] + r[4]
        wd == Min(l1, r1) - Max(l0, r0)
        ht == Min(l3, r3) - Max(l2, r2)
        lS == 4 * l[3] * l[4]
        rS == 4 * r[3] * r[4]
    IN  /\ \A e \in {l0, l1, l2, l3, r0, r1, r2, r3} : Fl(e) = e
        /\ Fl(l[3] * l[4]) = l[3] * l[4]
        /\ Fl(r[3] * r[4]) = r[3] * r[4]
        /\ Fl(lS + rS) = lS + rS
        /\ (wd >= 0 /\ ht >= 0) =>
               /\ Fl(wd) = wd /\ Fl(ht) = ht /\ Fl(wd * ht) = wd * ht
               /\ Fl(lS + rS - wd * ht) = lS + rS - wd * ht

\* C7, as stated: for every two boxes of positive area iou() is within
\* [0, 1], and iou() of a box of positive area with itself is 1.
C7_IouBounds ==
    (op = "iou" /\ PositiveArea(lbox) /\ PositiveArea(rbox)) =>
        /\ InUnitInterval(iouRes)
        /\ lbox = rbox => iouRes = <<1, 1>>

\* C7, amended: the same, for boxes for which no edge, side, area or union
\* computed by iou() had to be rounded.
C7_IouBoundsExact ==
    (op = "iou" /\ PositiveArea(lbox) /\ PositiveArea(rbox)
        /\ ExactOps(lbox, rbox)) =>
        /\ InUnitInterval(iouRes)
        /\ lbox = rbox => iouRes = <<1, 1>>

\* two different boxes of positive area that overlap in part, computed
\* without rounding
C7_Witness ==
    /\ op = "iou"
    /\ PositiveArea(lbox) /\ PositiveArea(rbox)
    /\ ExactOps(lbox, rbox)
    /\ lbox # rbox
    /\ iouRes # <<0, 1>> /\ iouRes # <<1, 1>>

\* C8, as stated: iou(a, b) == iou(b, a) for every two boxes.
C8_IouSymmetric ==
    op = "iou" => FEq(iouRes, iou(rbox, lbox))

\* C8, amended: iou(a, b) and iou(b, a) are the same number, or both are
\* NaN.
C8_IouSymmetricOrNaN ==
    op = "iou" => iouRes = iou(rbox, lbox)

\* two overlapping boxes of different areas, with rounding on the way
C8_Witness ==
    /\ op = "iou"
    /\ lbox[3] * lbox[4] # rbox[3] * rbox[4]
    /\ ~ExactOps(lbox, rbox)
    /\ ~IsNaN(iouRes)
    /\ iouRes # <<0, 1>>

(* ---------------------------------------------------------------------- *)
(* Properties of the objects the parsing functions add                     *)
(* ---------------------------------------------------------------------- *)

ParseOps == {"YoloV5", "YoloV4", "YoloTLT"}

\* C9: every object a parsing function adds has width > 0 and height > 0
\* and meets the rectangle [0, network width] x [0, network height].
C9_BoxesPositiveInside ==
    op \in ParseOps =>
        \A o \in Range(Emitted) :
            /\ o.width > 0 /\ o.height > 0
            /\ o.left <= 4 * networkInfo.width
            /\ o.top <= 4 * networkInfo.height
            /\ o.left + o.width >= 0
            /\ o.top + o.height >= 0

\* C10: every object a parsing function adds has a detectionConfidence
\* within [0, 1].
C10_ConfidenceInUnitInterval ==
    op \in ParseOps =>
        \A o \in Range(Emitted) :
            o.detectionConfidence >= 0 /\ o.detectionConfidence <= 1000

(* ---------------------------------------------------------------------- *)
(* Properties of the grid-anchor decoders                                  *)
(* ---------------------------------------------------------------------- *)

GridOps == {"YoloV3", "YoloV3Tiny", "YoloV2", "YoloV2Tiny"}

\* the objects a parsing function gave its caller: a grid decoder that
\* returns true has replaced the caller's list by them
Added ==
    IF op \in GridOps
    THEN (IF exit = "return" /\ ret THEN objectList ELSE <<>>)
    ELSE Emitted

\* the slots of the tensors of the output layers
TensorSlots ==
    UNION {{outputLayersInfo[i].buffer[s] :
                s \in DOMAIN outputLayersInfo[i].buffer} :
           i \in DOMAIN outputLayersInfo}

ClassScores(slot) ==
    {ClassScore(slot, i) : i \in 0..(NUM_CLASSES_YOLO - 1)}

\* the highest class score of a slot, and the first class that has it
MaxScore(slot) ==
    CHOOSE m \in ClassScores(slot) : \A v \in ClassScores(slot) : v <= m

ArgMax(slot) ==
    CHOOSE i \in 0..(NUM_CLASSES_YOLO - 1) :
        /\ ClassScore(slot, i) = MaxScore(slot)
        /\ \A j \in 0..(i - 1) : ClassScore(slot, j) # MaxScore(slot)

\* C11: every object a grid decoder emits comes from a slot of a tensor
\* with confidence = objectness x the highest class score of the slot and
\* class id = the class of that score, an index below NUM_CLASSES_YOLO,
\* also when no class score of the slot is above zero.
C11_ConfidenceAndArgmax ==
    op \in GridOps =>
        \A o \in Range(Added) :
            /\ o.classId < NUM_CLASSES_YOLO
            /\ \E slot \in TensorSlots :
                   /\ o.classId = ArgMax(slot)
                   /\ o.detectionConfidence =
                          MulThousandths(slot.objectness, MaxScore(slot))

\* C12: no object a grid decoder emits has a detectionConfidence below
\* zero.
C12_NoNegativeConfidence ==
    op \in GridOps =>
        \A o \in Range(Added) : o.detectionConfidence >= 0

\* C13, as stated: every box a grid decoder emits has 0 <= left, 0 <= top,
\* left + width <= network width, top + height <= network height,
\* width >= 1 and height >= 1.
C13_GridBoxesInside ==
    op \in GridOps =>
        \A o \in Range(Added) :
            /\ o.left >= 0 /\ o.top >= 0
            /\ o.left + o.width <= 4 * networkInfo.width
            /\ o.top + o.height <= 4 * networkInfo.height
            /\ o.width >= 4 /\ o.height >= 4

\* C13, amended: the same with the two sums as float computes them; a
\* slot whose clamped box has a side below one pixel gives no object and
\* the slots after it are decoded.
C13_GridBoxesInsideFloat ==
    op \in GridOps =>
        \A o \in Range(Added) :
            /\ o.left >= 0 /\ o.top >= 0
            /\ FAdd(o.left, o.width) <= 4 * networkInfo.width
            /\ FAdd(o.top, o.height) <= 4 * networkInfo.height
            /\ o.width >= 4 /\ o.height >= 4

\* NvDsInferParseCustomYoloV3 has visited the quiet slots of a 3 x 3 grid,
\* whose boxes have no width, and after them a slot whose box it emitted
C13_Witness ==
    /\ op = "YoloV3" /\ exit = "return" /\ ret
    /\ outputLayersInfo[1].inferDims.d[2] = 3
    /\ outputLayersInfo[1].buffer[<<0, 0, 0>>] = QuietSlot
    /\ outputLayersInfo[1].buffer[<<2, 2, 0>>] # QuietSlot
    /\ Len(objectList) = 1
    /\ objectList[1].left > 0 /\ objectList[1].top > 0
    /\ objectList[1].width >= 4 /\ objectList[1].height >= 4

\* the number of mask groups the call in progress hands to
\* NvDsInferParseYoloV3
MaskGroups == IF op = "YoloV3" THEN Len(kMASKS_V3) ELSE Len(kMASKS_V3Tiny)

\* C14: when NvDsInferParseYoloV3 is given a number of layers other than
\* the number of mask groups (3 for V3, 2 for V3Tiny), it returns false
\* and objectList is as it was on entry.
C14_LayerCountMismatch ==
    (op \in {"YoloV3", "YoloV3Tiny"} /\ Len(outputLayersInfo) # MaskGroups)
        => /\ exit = "return"
           /\ ret = FALSE
           /\ objectList = entryList

\* NvDsInferParseCustomYoloV3 was given two layers, one with a filled slot,
\* and a list that holds an object
C14_Witness ==
    /\ op = "YoloV3"
    /\ Len(outputLayersInfo) = 2
    /\ \E slot \in TensorSlots : slot # QuietSlot
    /\ entryList # <<>>
    /\ ret = FALSE

\* the layers the call in progress goes on to decode: all of them when
\* NvDsInferParseYoloV3 finds as many as mask groups, the first one in
\* NvDsInferParseYoloV2
DecodedLayers ==
    IF op \in {"YoloV3", "YoloV3Tiny"}
    THEN (IF Len(outputLayersInfo) = MaskGroups
          THEN {outputLayersInfo[i] : i \in DOMAIN outputLayersInfo}
          ELSE {})
    ELSE (IF outputLayersInfo # <<>> THEN {outputLayersInfo[1]} ELSE {})

\* the stride a layer gets from the width differs from the one it gets
\* from the height
StrideMismatch(layer) ==
    DIVUP(networkInfo.width, layer.inferDims.d[3])
        # DIVUP(networkInfo.height, layer.inferDims.d[2])

\* C15: when the stride from the width differs from the stride from the
\* height for a layer a grid decoder decodes, the call returns false and
\* emits nothing; it does not abort and does not decode with the stride
\* from the width.
C15_StrideMismatchFails ==
    (op \in GridOps /\ \E layer \in DecodedLayers : StrideMismatch(layer))
        => /\ exit = "return"
           /\ ret = FALSE
           /\ objectList = entryList

(* ---------------------------------------------------------------------- *)
(* Properties of all the parsing functions                                 *)
(* ---------------------------------------------------------------------- *)

\* the call in progress was given a number of layers its decoder cannot
\* use: none for V5, V4, V2 and V2Tiny, other than four for TLT
WrongLayerCount ==
    \/ /\ op \in {"YoloV5", "YoloV4", "YoloV2", "YoloV2Tiny"}
       /\ outputLayersInfo = <<>>
    \/ /\ op = "YoloTLT"
       /\ Len(outputLayersInfo) # 4

\* C16: a call given the wrong number of layers returns false with
\* nothing added to objectList; it does not crash (and so has read no
\* buffer of a layer that is not there).
C16_WrongLayerCountFails ==
    WrongLayerCount
        => /\ exit = "return"
           /\ ret = FALSE
           /\ objectList = entryList

\* what the call in progress has shown its caller
Outcome == [ret |-> ret, objectList |-> objectList, exit |-> exit]

\* the call in progress can end as it did when it is given dp for
\* detectionParams and everything else as it was
SameOutcomeWith(dp) ==
    CASE op = "YoloV3" ->
           \E ndebug \in BOOLEAN :
               Outcome = NvDsInferParseCustomYoloV3(outputLayersInfo,
                             networkInfo, dp, entryList, ndebug)
      [] op = "YoloV3Tiny" ->
           \E ndebug \in BOOLEAN :
               Outcome = NvDsInferParseCustomYoloV3Tiny(outputLayersInfo,
                             networkInfo, dp, entryList, ndebug)
      [] op = "YoloV2" ->
           \E ndebug \in BOOLEAN :
               Outcome = NvDsInferParseCustomYoloV2(outputLayersInfo,
                             networkInfo, dp, entryList, ndebug)
      [] op = "YoloV2Tiny" ->
           \E ndebug \in BOOLEAN :
               Outcome = NvDsInferParseCustomYoloV2Tiny(outputLayersInfo,
                             networkInfo, dp, entryList, ndebug)
      [] op = "YoloTLT" ->
           /\ exit = "return"
           /\ <<ret, objectList>> =
                  NvDsInferParseCustomYoloTLT(outputLayersInfo, networkInfo,
                                              dp, entryList)
      [] op = "YoloV5" ->
           \E read \in FirstLayerRead(outputLayersInfo) :
               IF read = <<>> THEN exit = "crash" /\ objectList = entryList
               ELSE /\ exit = "return" /\ ret
                    /\ objectList = NvDsInferParseYoloV5(read, networkInfo,
                                                         dp, entryList)
      [] op = "YoloV4" ->
           \E read \in FirstLayerRead(outputLayersInfo) :
               IF read = <<>> THEN exit = "crash" /\ objectList = entryList
               ELSE /\ exit = "return" /\ ret
                    /\ objectList = NvDsInferParseYoloV4(read, networkInfo,
                                                         dp, entryList)
      [] OTHER -> TRUE

AllParseOps == ParseOps \cup GridOps

\* C18: every object a parsing function adds to objectList has a classId
\* below detectionParams.numClassesConfigured.
C18_ClassIdConfigured ==
    op \in AllParseOps =>
        \A o \in Range(Added) :
            o.classId < detectionParams.numClassesConfigured

\* C19: every object a parsing function adds to objectList has a
\* detectionConfidence at or above the caller's pre-cluster threshold of
\* its class (an object of a class the caller has no threshold for is
\* left to C18).
C19_AbovePreclusterThreshold ==
    op \in AllParseOps =>
        \A o \in Range(Added) :
            o.classId \in DOMAIN detectionParams.perClassPreclusterThreshold
                => o.detectionConfidence
                       >= detectionParams.perClassPreclusterThreshold[o.classId]

\* C20: every box NvDsInferParseCustomYoloTLT emits has a score of at
\* most 1.001 and lies inside the network picture, its right and bottom
\* edges as float adds them up, whatever the network's width and height.
C20_TLTBoxesInside ==
    op = "YoloTLT" =>
        \A o \in Range(Added) :
            /\ o.detectionConfidence <= MAX_SCORE
            /\ o.left >= 0 /\ o.top >= 0
            /\ FAdd(o.left, o.width) <= 4 * networkInfo.width
            /\ FAdd(o.top, o.height) <= 4 * networkInfo.height

(* ---------------------------------------------------------------------- *)
(* Properties of the proposal-passthrough decoder: what it emits           *)
(* ---------------------------------------------------------------------- *)

\* the first min(keepCount, topK) entries of the layers given to
\* NvDsInferParseCustomYoloTLT, counted from 1
TLTFirstEntries == 1..Min(outputLayersInfo[1].buffer[1], topK)

\* entry i has a score of at most 1.001 and a box with 0 <= x1 <= x2 <=
\* network width and 0 <= y1 <= y2 <= network height
TLTValid(i) ==
    LET loc == outputLayersInfo[2].buffer[i]
    IN  /\ outputLayersInfo[3].buffer[i] <= MAX_SCORE
        /\ 0 <= loc[1] /\ loc[1] <= loc[3] /\ loc[3] <= 4 * networkInfo.width
        /\ 0 <= loc[2] /\ loc[2] <= loc[4] /\ loc[4] <= 4 * networkInfo.height

\* the object of entry i: left = x1, top = y1, width = x2 - x1,
\* height = y2 - y1 (the differences as float computes them), its score
\* and its class
TLTObject(i) ==
    LET loc == outputLayersInfo[2].buffer[i]
    IN  ObjectInfo(outputLayersInfo[4].buffer[i], loc[1], loc[2],
                   FSub(loc[3], loc[1]), FSub(loc[4], loc[2]),
                   outputLayersInfo[3].buffer[i])

\* C21: NvDsInferParseCustomYoloTLT emits every entry among the first
\* min(keepCount, topK) whose score is at most 1.001 and whose box lies in
\* the network picture, as left = x1, top = y1, width = x2 - x1, height =
\* y2 - y1 with its score, whatever the score and the network's width and
\* height; it emits no entry with a score above 1.001.
C21_ValidEntriesEmitted ==
    (op = "YoloTLT" /\ ret) =>
        /\ \A i \in TLTFirstEntries :
               TLTValid(i) => \E j \in DOMAIN Emitted :
                                  Emitted[j] = TLTObject(i)
        /\ \A o \in Range(Emitted) : o.detectionConfidence <= MAX_SCORE

\* C22: NvDsInferParseCustomYoloTLT emits only entries among the first
\* min(keepCount, topK), and a call that starts with an empty objectList
\* ends with at most topK objects.
C22_AtMostTopK ==
    (op = "YoloTLT" /\ ret) =>
        /\ \A o \in Range(Emitted) :
               \E i \in TLTFirstEntries : o = TLTObject(i)
        /\ entryList = <<>> => Len(objectList) <= topK

(* ---------------------------------------------------------------------- *)
(* Properties of the direct-regression decoders: what nms() reads          *)
(* ---------------------------------------------------------------------- *)

\* min(count, MAX_OUTPUT_BBOX_COUNT), and 0 for a count below 0
CountRead == Min(Max(output.count, 0), MAX_OUTPUT_BBOX_COUNT)

\* the buffer of the call with nothing behind its first CountRead tuples
BufferRead == [count |-> output.count, dets |-> SubSeq(output.dets, 1, CountRead)]

WholePixels(q) == q % 4 = 0

\* o is the object of the center-format detection r: left and top are
\* cx - w/2 and cy - h/2 as float computes them, or 0 when that is below 0,
\* width and height are w and h, each with its fraction cut off; the
\* confidence and the class id are those of r
ObjectOf(o, r) ==
    LET x == FSub(2 * r.bbox[1], r.bbox[3])
        y == FSub(2 * r.bbox[2], r.bbox[4])
    IN  /\ o.left >= 0 /\ o.top >= 0
        /\ WholePixels(o.left) /\ WholePixels(o.top)
        /\ WholePixels(o.width) /\ WholePixels(o.height)
        /\ IF x < 0 THEN o.left = 0 ELSE o.left <= x /\ x < o.left + 4
        /\ IF y < 0 THEN o.top = 0 ELSE o.top <= y /\ y < o.top + 4
        /\ o.width <= 2 * r.bbox[3] /\ 2 * r.bbox[3] < o.width + 4
        /\ o.height <= 2 * r.bbox[4] /\ 2 * r.bbox[4] < o.height + 4
        /\ o.detectionConfidence = r.conf
        /\ o.classId = r.class_id

\* C29: NvDsInferParseYoloV5 and NvDsInferParseYoloV4 add one object for
\* each detection nms() returns for the buffer they read, in the order of
\* nms(): left = max(0, cx - w/2), top = max(0, cy - h/2), width = w,
\* height = h, each truncated, with the detection's confidence and class
\* id; left and top are never negative.
C29_OneObjectPerDetection ==
    (op \in {"YoloV5", "YoloV4"} /\ exit = "return") =>
        \E read \in FirstLayerRead(outputLayersInfo) \ {<<>>} :
            LET r == nms(read[1].buffer, CONF_THRESH, NMS_THRESH)
            IN  /\ Len(Emitted) = Len(r)
                /\ \A i \in 1..Len(r) : ObjectOf(Emitted[i], r[i])

\* NvDsInferParseCustomYoloV5 was given a layer and has added two objects,
\* one of them for a box that begins left of and above the picture
C29_Witness ==
    /\ op = "YoloV5" /\ exit = "return"
    /\ outputLayersInfo # <<>>
    /\ Len(Emitted) = 2
    /\ \E d \in Range(outputLayersInfo[1].buffer.dets) :
           /\ 2 * d.bbox[1] < d.bbox[3] /\ 2 * d.bbox[2] < d.bbox[4]
           /\ \E o \in Range(Emitted) :
                  o.left = 0 /\ o.top = 0 /\ o.width = TruncPixels(2 * d.bbox[3])

(* ---------------------------------------------------------------------- *)
(* Properties of nms() followed statement by statement                     *)
(* ---------------------------------------------------------------------- *)

\* res holds every tuple at most as often as the first min(count, 1000)
\* tuples of the buffer do
SubMultiset ==
    \A x \in Range(res) :
        Occurrences(res, x) <= Occurrences(SubSeq(output.dets, 1, CountRead), x)

\* within each class res is in descending order of confidence
DescendingInClass ==
    \A i, j \in 1..Len(res) :
        (i < j /\ res[i].class_id = res[j].class_id)
            => res[i].conf >= res[j].conf

\* C30: nms() returns for every buffer, although it erases elements of
\* the vector it iterates over; when it has returned, every detection in
\* res is a copy of one of the first min(count, 1000) tuples, no tuple is
\* in res more often than among them, and within each class the
\* detections are in descending order of confidence.
C30_TerminatesSubMultiset ==
    /\ (loop.pc = "read") ~> (loop.pc = "done")
    /\ [](loop.pc = "done" => SubMultiset /\ DescendingInClass)

\* nms() has returned after it erased an element of a vector of which it
\* emitted two
C30_Witness ==
    /\ loop.pc = "done"
    /\ Len(res) < Len(loop.cands)
    /\ \E i, j \in 1..Len(res) :
           i < j /\ res[i].class_id = res[j].class_id
                 /\ res[i].conf > res[j].conf

\* nms() followed statement by statement leaves in res what the operator
\* nms gives
LoopAgreesWithNms ==
    loop.pc = "done" => res = nms(output, conf_thresh, nms_thresh)

(* ---------------------------------------------------------------------- *)
(* Properties of the same call made twice                                  *)
(* ---------------------------------------------------------------------- *)

AgainOps == {"nmsAgain", "YoloV5Again", "YoloV4Again"}

Alone(t) ==
    LET call == threads[t].call
    IN  IF call.f = "YoloV3"
        THEN NvDsInferParseCustomYoloV3(call.layers, call.net,
                 DetectionParams(NUM_CLASSES_YOLO, 850, 300), call.list, TRUE)
        ELSE NvDsInferParseCustomYoloV3Tiny(call.layers, call.net,
                 DetectionParams(NUM_CLASSES_YOLO, 850, 300), call.list, TRUE)

\* C25: when two calls of NvDsInferParseCustomYoloV3 or
\* NvDsInferParseCustomYoloV3Tiny run on two threads, each on its own
\* layers and objectList, then however their statements interleave each
\* call returns what it returns alone and leaves the objectList it leaves
\* alone; and the static tables kANCHORS and kMASKS, the only data the
\* calls share, are not written once they are initialised.
C25_ThreadsIndependent ==
    /\ [](\A t \in Threads :
            threads[t].pc = "done"
                => /\ threads[t].ret = Alone(t).ret
                   /\ threads[t].objectList = Alone(t).objectList)
    /\ [][\A f \in DOMAIN statics :
              statics[f] # <<>> => statics'[f] = statics[f]]_vars

\* thread 1 has returned its objects while thread 2, which uses the same
\* static tables on other layers, is in the middle of its loop
C25_Witness ==
    /\ threads[1].pc = "done"
    /\ threads[1].ret
    /\ threads[1].objectList # <<>>
    /\ threads[2].pc = "layer"
    /\ threads[2].idx >= 1
    /\ threads[2].call.f = threads[1].call.f
    /\ threads[2].call.layers # threads[1].call.layers
    /\ locals[2] # <<>>
    /\ locals[2] # locals[1]

(* ---------------------------------------------------------------------- *)
(* Properties of the grid decoders: suppression                            *)
(* ---------------------------------------------------------------------- *)

\* the area two objects share, and the area they cover together, in
\* sixteenths of a square pixel
ObjectsInter(a, b) ==
    LET w == Min(a.left + a.width, b.left + b.width) - Max(a.left, b.left)
        h == Min(a.top + a.height, b.top + b.height) - Max(a.top, b.top)
    IN  IF w <= 0 \/ h <= 0 THEN 0 ELSE w * h

ObjectsUnion(a, b) ==
    a.width * a.height + b.width * b.height - ObjectsInter(a, b)

\* the IoU of two objects is above t thousandths
ObjectsOverlap(a, b, t) == ObjectsInter(a, b) * 1000 > t * ObjectsUnion(a, b)

\* C26: the list a grid decoder returns holds no two objects of one class
\* whose IoU is above NMS_THRESH.
C26_GridListSuppressed ==
    (op \in GridOps /\ exit = "return" /\ ret) =>
        \A i, j \in 1..Len(objectList) :
            (i < j /\ objectList[i].classId = objectList[j].classId)
                => ~ObjectsOverlap(objectList[i], objectList[j], NMS_THRESH)

(* ---------------------------------------------------------------------- *)
(* Properties of the single-layer grid decoder                             *)
(* ---------------------------------------------------------------------- *)

\* the slots of a tensor with objectness and one class score from 0.5 to 1
\* and a center inside their cell
HotSlots(detections) ==
    {s \in DOMAIN detections :
        /\ detections[s].objectness \in 500..1000
        /\ detections[s].p \in 500..1000
        /\ detections[s].tx \in 0..4
        /\ detections[s].ty \in 0..4}

\* a single layer in which one slot is hot and every value of every other
\* slot is zero
OneHotLayer ==
    /\ Len(outputLayersInfo) = 1
    /\ Cardinality(HotSlots(outputLayersInfo[1].buffer)) = 1
    /\ \A s \in DOMAIN outputLayersInfo[1].buffer :
           s \notin HotSlots(outputLayersInfo[1].buffer)
               => outputLayersInfo[1].buffer[s] = QuietSlot

\* C27: from a single layer with one hot slot and zeros everywhere else
\* NvDsInferParseYoloV2 returns exactly one object: its confidence is
\* objectness x class score, its class id the index of that score, and its
\* box is inside the network.
C27_OneHotSlotOneObject ==
    (op \in {"YoloV2", "YoloV2Tiny"} /\ exit = "return" /\ ret /\ OneHotLayer)
        => LET detections == outputLayersInfo[1].buffer
               hot == detections[CHOOSE s \in HotSlots(detections) : TRUE]
           IN  /\ Len(objectList) = 1
               /\ objectList[1].detectionConfidence
                      = MulThousandths(hot.objectness, hot.p)
               /\ objectList[1].classId = hot.k
               /\ objectList[1].left >= 0
               /\ objectList[1].top >= 0
               /\ objectList[1].left + objectList[1].width
                      <= 4 * networkInfo.width
               /\ objectList[1].top + objectList[1].height
                      <= 4 * networkInfo.height

(* ---------------------------------------------------------------------- *)
(* Properties of NvDsInferParseYoloV3: the order of the layers             *)
(* ---------------------------------------------------------------------- *)

\* the sequences that hold the elements of s in some order
Reorderings(s) ==
    {[i \in 1..Len(s) |-> s[q[i]]] :
        q \in {f \in [1..Len(s) -> 1..Len(s)] :
                  \A i, j \in 1..Len(s) : f[i] = f[j] => i = j}}

\* what the call made gives on the layers in the order q, in a build with
\* or without NDEBUG
OnLayers(q, ndebug) ==
    IF op = "YoloV3"
    THEN NvDsInferParseCustomYoloV3(q, networkInfo, detectionParams,
                                    entryList, ndebug)
    ELSE NvDsInferParseCustomYoloV3Tiny(q, networkInfo, detectionParams,
                                        entryList, ndebug)

\* the call made gives the same for every order of its layers
SameInEveryOrder ==
    \E ndebug \in BOOLEAN :
        \A q \in Reorderings(outputLayersInfo) :
            OnLayers(q, ndebug)
                = [ret |-> ret, objectList |-> objectList, exit |-> exit]

\* C28, as stated: the layers NvDsInferParseYoloV3 matches with the
\* anchor-mask groups are in ascending order of their channel dimension
\* (inferDims.d[0]), and what the call gives does not depend on the order
\* the caller gave them in.
C28_OrderedByChannels ==
    op \in {"YoloV3", "YoloV3Tiny"} =>
        LET sortedLayers == SortLayers(outputLayersInfo)
        IN  /\ \A k \in 1..(Len(sortedLayers) - 1) :
                   sortedLayers[k].inferDims.d[1]
                       <= sortedLayers[k + 1].inferDims.d[1]
            /\ SameInEveryOrder

\* C28, amended: the layers NvDsInferParseYoloV3 matches with the
\* anchor-mask groups are in ascending order of their grid height
\* (inferDims.d[1]), so the k-th group goes to the layer with the k-th
\* smallest grid height, and when no two layers have the same grid height
\* what the call gives does not depend on the order the caller gave them
\* in.
C28_OrderedByGridHeight ==
    op \in {"YoloV3", "YoloV3Tiny"} =>
        LET sortedLayers == SortLayers(outputLayersInfo)
        IN  /\ \A k \in 1..(Len(sortedLayers) - 1) :
                   sortedLayers[k].inferDims.d[2]
                       <= sortedLayers[k + 1].inferDims.d[2]
            /\ (\A i, j \in 1..Len(outputLayersInfo) :
                    i # j => outputLayersInfo[i].inferDims.d[2]
                                 # outputLayersInfo[j].inferDims.d[2])
                   => SameInEveryOrder

\* a call that was given its layers out of the order of their grids, the
\* layer with the smallest grid not having the fewest channels, has
\* returned objects
C28_Witness ==
    /\ op \in {"YoloV3", "YoloV3Tiny"}
    /\ exit = "return"
    /\ ret
    /\ objectList # <<>>
    /\ outputLayersInfo # SortLayers(outputLayersInfo)
    /\ \E i, j \in 1..Len(outputLayersInfo) :
           /\ outputLayersInfo[i].inferDims.d[2]
                  < outputLayersInfo[j].inferDims.d[2]
           /\ outputLayersInfo[i].inferDims.d[1]
                  > outputLayersInfo[j].inferDims.d[1]

====
